---- MODULE Spec2Model ----
(***************************************************************************)
(* Network-toxicology statistical engine of h-perforatum-network-tox:      *)
(* transition-matrix builder, random walk with restart, shortest-path      *)
(* proximity, degree-matched sampling and empirical statistics.            *)
(*                                                                         *)
(* Floating-point numbers are modelled as exact rationals <<num, den>>     *)
(* (den > 0, lowest terms).  Graph nodes are the labels 1..G.n in          *)
(* list(G.nodes()) order; labels above G.n are not nodes of the graph.     *)
(***************************************************************************)
EXTENDS Integers, Sequences, FiniteSets, TLC

VARIABLES
    pc,               \* position of the running call
    G,                \* the graph: [n |-> node count, E |-> edges <<u, v>>, u <= v]
    expression,       \* the expression dictionary: node label -> raw TPM
    norm_method,      \* the method argument of the normalization
    fn,               \* the function of the repository that was called
    W,                \* the transition matrix built (<<>> before it is built)
    seeds,            \* the seed list handed to the RWR engine
    restart_prob,     \* alpha
    tol,              \* convergence tolerance
    max_iter,         \* iteration cap
    r,                \* restart vector
    p,                \* current probability vector
    iter,             \* number of passes of the call's loop executed so far
    diffs,            \* L1 change of every update executed so far, in order
    scores,           \* the score map the RWR engine returned
    targets,          \* sampler: the original target list
    n_sample,         \* sampler: the number of nodes asked for
    target_degrees,   \* sampler: degrees of the targets found in the graph
    random_set,       \* sampler: the nodes chosen so far, in order
    observed,         \* statistics: the observed value, Float(v) or NaN
    null_distribution,\* statistics: the list of null values
    tail,             \* statistics: the tail option
    drug_targets,     \* proximity: the drug-target list
    disease_genes,    \* proximity: the disease-gene set
    tissue_genes,     \* network: the set of genes expressed in the tissue
    targets_in,       \* proximity: the drug targets that are nodes of G
    disease_in,       \* proximity: the disease genes that are nodes of G (a set)
    distances,        \* proximity: minimum distances collected so far
    seed,             \* sampler: the seed argument (None or an integer)
    rng,              \* sampler: the state of NumPy's global generator
    previous,         \* sampler: the lists returned by the earlier calls
    bins,             \* NullModel: node -> the chunk of degree-sorted nodes it is in
    results_df,       \* scripts: the result table, one record per row
    result            \* the value returned by a statistics or proximity call

rwrVars == <<expression, norm_method, W, seeds, restart_prob, tol, max_iter, r, p, diffs, scores>>
samplerVars == <<targets, n_sample, target_degrees, random_set, seed, rng, previous, bins>>
statsVars == <<observed, null_distribution, tail, results_df>>
spVars == <<drug_targets, disease_genes, tissue_genes, targets_in, disease_in, distances>>

vars == <<pc, G, fn, iter, result, rwrVars, samplerVars, statsVars, spVars>>

\* the variables of a component that is not part of the running call
RwrIdle ==
    /\ expression = <<>> /\ norm_method = "log_minmax" /\ W = <<>> /\ seeds = <<>>
    /\ restart_prob = <<0, 1>> /\ tol = <<0, 1>> /\ max_iter = 0
    /\ r = <<>> /\ p = <<>> /\ diffs = <<>> /\ scores = "none"

SamplerIdle ==
    /\ targets = <<>> /\ n_sample = 0 /\ target_degrees = <<>> /\ random_set = <<>>
    /\ seed = -1 /\ rng = [kind |-> "entropy"] /\ previous = <<>> /\ bins = <<>>

StatsIdle ==
    /\ observed = [kind |-> "float", value |-> 0] /\ null_distribution = <<>> /\ tail = "none"
    /\ results_df = <<>>

SpIdle ==
    /\ drug_targets = <<>> /\ disease_genes = {} /\ tissue_genes = {}
    /\ targets_in = <<>> /\ disease_in = {} /\ distances = <<>>

\* ------------------------------------------------------------------ bounds
MaxNodes == 3
MaxExprEntries == 2
MaxSeeds == 1
MaxIter == 3
MaxTargets == 2
MaxDisease == 2
MaxValue == 2
MaxNull == 3
MaxSeed == 1
MaxCalls == 2
MaxRows == 2

\* --------------------------------------------------- exact real arithmetic
Abs(x) == IF x < 0 THEN -x ELSE x

RECURSIVE GCD(_, _)
GCD(a, b) == IF b = 0 THEN a ELSE GCD(b, a % b)

Rat(n, d) == LET g == GCD(Abs(n), d) IN <<n \div g, d \div g>>

Zero == <<0, 1>>
One == <<1, 1>>

RAdd(x, y) ==
    LET g == GCD(x[2], y[2])
        l == (x[2] \div g) * y[2]
    IN  Rat(x[1] * (l \div x[2]) + y[1] * (l \div y[2]), l)

RNeg(x) == <<-x[1], x[2]>>
RSub(x, y) == RAdd(x, RNeg(y))
RAbs(x) == <<Abs(x[1]), x[2]>>

RMul(x, y) ==
    LET g1 == GCD(Abs(x[1]), y[2])
        g2 == GCD(Abs(y[1]), x[2])
    IN  IF x[1] = 0 \/ y[1] = 0 THEN Zero
        ELSE <<(x[1] \div g1) * (y[1] \div g2), (x[2] \div g2) * (y[2] \div g1)>>

\* x / y for y > 0
RDiv(x, y) == RMul(x, <<y[2], y[1]>>)

\* a/b < c/d for b, d > 0, by comparing continued-fraction expansions
RECURSIVE FracLess(_, _, _, _)
FracLess(a, b, c, d) ==
    LET qa == a \div b
        qc == c \div d
        ra == a % b
        rc == c % d
    IN  IF qa # qc THEN qa < qc
        ELSE IF rc = 0 THEN FALSE
        ELSE IF ra = 0 THEN TRUE
        ELSE FracLess(d, rc, b, ra)

RLess(x, y) == FracLess(x[1], x[2], y[1], y[2])
RLeq(x, y) == ~RLess(y, x)
RMax(x, y) == IF RLess(x, y) THEN y ELSE x

RECURSIVE RSumTo(_, _)
RSumTo(f, k) == IF k = 0 THEN Zero ELSE RAdd(RSumTo(f, k - 1), f[k])

\* sum of a vector of rationals indexed 1..Len
RSum(f) == RSumTo(f, Len(f))

\* ------------------------------------------------- unbounded naturals
\* The iterates of the walk have denominators that outgrow machine integers;
\* they are kept as naturals of arbitrary size: little-endian digit sequences
\* in base Base without leading zeros (<<>> is 0).
Base == 10000

RECURSIVE Big(_)
Big(n) == IF n = 0 THEN <<>> ELSE <<n % Base>> \o Big(n \div Base)

BigHead(a) == IF a = <<>> THEN 0 ELSE Head(a)
BigTail(a) == IF a = <<>> THEN <<>> ELSE Tail(a)

RECURSIVE BigAddC(_, _, _)
BigAddC(a, b, c) ==
    IF a = <<>> /\ b = <<>> THEN Big(c)
    ELSE LET x == BigHead(a) + BigHead(b) + c
         IN  <<x % Base>> \o BigAddC(BigTail(a), BigTail(b), x \div Base)

BigAdd(a, b) == BigAddC(a, b, 0)

RECURSIVE BigLessFrom(_, _, _)
BigLessFrom(a, b, k) ==
    IF k = 0 THEN FALSE
    ELSE IF a[k] # b[k] THEN a[k] < b[k]
    ELSE BigLessFrom(a, b, k - 1)

BigLess(a, b) ==
    IF Len(a) # Len(b) THEN Len(a) < Len(b) ELSE BigLessFrom(a, b, Len(a))

RECURSIVE BigStrip(_)
BigStrip(a) ==
    IF a = <<>> THEN a
    ELSE IF a[Len(a)] = 0 THEN BigStrip(SubSeq(a, 1, Len(a) - 1))
    ELSE a

RECURSIVE BigSubB(_, _, _)
BigSubB(a, b, borrow) ==
    IF a = <<>> THEN <<>>
    ELSE LET x == Head(a) - BigHead(b) - borrow
         IN  IF x < 0
             THEN <<x + Base>> \o BigSubB(Tail(a), BigTail(b), 1)
             ELSE <<x>> \o BigSubB(Tail(a), BigTail(b), 0)

\* a - b for a >= b
BigSub(a, b) == BigStrip(BigSubB(a, b, 0))

\* |a - b|
BigAbsDiff(a, b) == IF BigLess(a, b) THEN BigSub(b, a) ELSE BigSub(a, b)

RECURSIVE BigMulDigit(_, _, _)
BigMulDigit(a, k, c) ==
    IF a = <<>> THEN Big(c)
    ELSE LET x == Head(a) * k + c
         IN  <<x % Base>> \o BigMulDigit(Tail(a), k, x \div Base)

BigShift(a) == IF a = <<>> THEN a ELSE <<0>> \o a

RECURSIVE BigMul(_, _)
BigMul(a, b) ==
    IF a = <<>> \/ b = <<>> THEN <<>>
    ELSE BigAdd(IF Head(b) = 0 THEN <<>> ELSE BigMulDigit(a, Head(b), 0),
                BigShift(BigMul(a, Tail(b))))

\* a * k for a machine integer k >= 0
BigMulInt(a, k) ==
    IF k = 0 THEN <<>>
    ELSE IF k < Base THEN BigMulDigit(a, k, 0)
    ELSE BigMul(a, Big(k))

RECURSIVE BigSumTo(_, _)
BigSumTo(f, k) == IF k = 0 THEN <<>> ELSE BigAdd(BigSumTo(f, k - 1), f[k])

BigSum(f) == BigSumTo(f, Len(f))

\* A vector of non-negative reals is a record [num, den]: entry i is
\* num[i] / den, with num[i] and den unbounded naturals and den > 0.
\* x.num[i] / x.den = y.num[j] / y.den
VecEq(x, i, y, j) == BigMul(x.num[i], y.den) = BigMul(y.num[j], x.den)

\* x.num[i] / x.den < y.num[j] / y.den
VecLess(x, i, y, j) == BigLess(BigMul(x.num[i], y.den), BigMul(y.num[j], x.den))

\* -------------------------------------------------------------------- graph
Nodes(g) == 1 .. g.n

Pairs(n) == {e \in (1 .. n) \X (1 .. n) : e[1] < e[2]}

\* all simple undirected graphs on up to k nodes (the graph provider's contract)
SimpleGraphs(k) == UNION {{[n |-> n, E |-> E] : E \in SUBSET Pairs(n)} : n \in 0 .. k}

Graphs == SimpleGraphs(MaxNodes)

HasEdge(g, i, j) == <<i, j>> \in g.E \/ <<j, i>> \in g.E

\* nx.adjacency_matrix(G, nodelist=nodes).astype(float): a self-loop is one
\* diagonal entry
adjacency_matrix(g) ==
    [i \in Nodes(g) |-> [j \in Nodes(g) |-> IF HasEdge(g, i, j) THEN One ELSE Zero]]

\* -------------------------------------------------- transition matrix (W)
\* adj.sum(axis=0): the sum of every column
col_sum(A, n) == [j \in 1 .. n |-> RSum([i \in 1 .. n |-> A[i][j]])]

\* col_sum[col_sum == 0] = 1
fix_zero(cs) == [j \in DOMAIN cs |-> IF cs[j] = Zero THEN One ELSE cs[j]]

\* the row-normalised variant D^-1 * A: entry (i, j) divided by the sum of row i
column_normalize_by_row(A, n) ==
    LET rs == fix_zero([i \in 1 .. n |-> RSum(A[i])])
    IN  [i \in 1 .. n |-> [j \in 1 .. n |-> RDiv(A[i][j], rs[i])]]

\* the variant that gives a node without neighbours a transition to itself
column_normalize_self(A, n) ==
    LET cs == col_sum(A, n)
    IN  [i \in 1 .. n |-> [j \in 1 .. n |->
            IF cs[j] = Zero THEN (IF i = j THEN One ELSE Zero)
            ELSE RDiv(A[i][j], cs[j])]]

\* M.dot(sparse.diags(1.0 / col_sum)): divide column j by col_sum[j]
column_normalize(A, n) ==
    LET cs == fix_zero(col_sum(A, n))
    IN  [i \in 1 .. n |-> [j \in 1 .. n |-> RDiv(A[i][j], cs[j])]]

\* rwr.py: W = A * D^-1
standard_transition_matrix(g) == column_normalize(adjacency_matrix(g), g.n)

\* the raw TPM levels of the model are 2^k - 1, so that log1p(x) = k * ln 2
ExprLevels == {0, 1, 3, 7}

\* np.log1p(x) in units of ln 2 (the unit cancels in the min-max scaling)
log1p(x) == <<CHOOSE k \in 0 .. 7 : 2 ^ k = 1 + x, 1>>

\* the variant that reads a missing node as 1.0
expr_get_default_one(e, node) == IF node \in DOMAIN e THEN e[node] ELSE 1

\* expression.get(node, 0.0)
expr_get(e, node) == IF node \in DOMAIN e THEN e[node] ELSE 0

RECURSIVE RMinTo(_, _)
RMinTo(f, k) ==
    IF k = 1 THEN f[1]
    ELSE LET m == RMinTo(f, k - 1) IN IF RLess(f[k], m) THEN f[k] ELSE m

RECURSIVE RMaxTo(_, _)
RMaxTo(f, k) ==
    IF k = 1 THEN f[1]
    ELSE LET m == RMaxTo(f, k - 1) IN IF RLess(m, f[k]) THEN f[k] ELSE m

ExprFloor == <<1, 100>>

\* the variant that leaves the scaled values unfloored
apply_no_floor(v) == v

\* np.maximum(expr_normalized, 0.01)
apply_floor(v) == [i \in DOMAIN v |-> RMax(v[i], ExprFloor)]

normalize_expression_values(e, n, method) ==
    LET raw == [i \in 1 .. n |-> <<expr_get(e, i), 1>>]
        expr_values == IF method = "log_minmax"
                       THEN [i \in 1 .. n |-> log1p(raw[i][1])]
                       ELSE raw
        min_val == RMinTo(expr_values, n)
        max_val == RMaxTo(expr_values, n)
        expr_normalized ==
            IF RLess(min_val, max_val)
            THEN [i \in 1 .. n |->
                    RDiv(RSub(expr_values[i], min_val), RSub(max_val, min_val))]
            ELSE [i \in 1 .. n |-> One]
    IN  apply_floor(expr_normalized)

\* the variant that scales column j by e_j
weighted_adj_by_column(A, e, n) ==
    LET expr_normalized == normalize_expression_values(e, n, "log_minmax")
    IN  [i \in 1 .. n |-> [j \in 1 .. n |-> RMul(expr_normalized[j], A[i][j])]]

\* expr_diag.dot(adj_matrix): row i scaled by e_i
weighted_adj(A, e, n) ==
    LET expr_normalized == normalize_expression_values(e, n, "log_minmax")
    IN  [i \in 1 .. n |-> [j \in 1 .. n |-> RMul(expr_normalized[i], A[i][j])]]

\* the variant that returns the weighted adjacency as it is
weighted_without_normalisation(A, e, n) == weighted_adj(A, e, n)

create_expression_weighted_transition_matrix(A, e, n) ==
    column_normalize(weighted_adj(A, e, n), n)

\* the expression dictionaries of the model: at most MaxExprEntries entries
ExprMaps(n) ==
    UNION {[D -> ExprLevels] :
            D \in {S \in SUBSET (1 .. n) : Cardinality(S) <= MaxExprEntries}}

\* the variant that gives every engine the standard matrix
TransitionMatrixUnweighted(f, g, e) == standard_transition_matrix(g)

\* the transition matrix each function builds
TransitionMatrix(f, g, e) ==
    IF f \in {"run_rwr", "run_standard_rwr"}
    THEN standard_transition_matrix(g)
    ELSE create_expression_weighted_transition_matrix(adjacency_matrix(g), e, g.n)

\* ------------------------------------------- specification: matrix builder
BuildMatrix ==
    /\ pc = "build"
    /\ W' = TransitionMatrix(fn, G, expression)
    /\ pc' = "built"
    /\ UNCHANGED <<G, expression, norm_method, fn, seeds, restart_prob, tol, max_iter,
                   r, p, iter, diffs, scores>>
    /\ UNCHANGED <<samplerVars, statsVars, spVars, result>>

InitMatrix ==
    /\ pc = "build"
    /\ G \in {g \in Graphs : g.n >= 1}
    /\ fn \in {"run_rwr", "create_expression_weighted_transition_matrix"}
    /\ expression \in IF fn = "run_rwr" THEN {<<>>} ELSE ExprMaps(G.n)
    /\ norm_method = "log_minmax"
    /\ W = <<>>
    /\ seeds = <<>>
    /\ restart_prob = Zero
    /\ tol = Zero
    /\ max_iter = 0
    /\ r = <<>>
    /\ p = <<>>
    /\ iter = 0
    /\ diffs = <<>>
    /\ scores = "none"
    /\ result = "none"
    /\ SamplerIdle /\ StatsIdle /\ SpIdle

NextMatrix == BuildMatrix

SpecMatrix == InitMatrix /\ [][NextMatrix]_vars

\* ------------------------------------------------------------- RWR engine
\* [s for s in seeds if s in node_idx]
valid_seeds(g, s) == SelectSeq(s, LAMBDA x : x \in Nodes(g))

\* the variant that restarts at every node of the graph
restart_vector_uniform(g, vs) ==
    [num |-> [i \in Nodes(g) |-> Big(1)], den |-> Big(g.n)]

\* r[node_idx[seed]] = 1.0 / len(valid_seeds), for every valid seed
restart_vector(g, vs) ==
    [num |-> [i \in Nodes(g) |->
                IF \E k \in 1 .. Len(vs) : vs[k] = i THEN Big(1) ELSE <<>>],
     den |-> Big(Len(vs))]

LCM(a, b) == (a \div GCD(a, b)) * b

RECURSIVE ColDenTo(_, _, _)
ColDenTo(M, j, k) ==
    IF k = 0 THEN 1 ELSE LCM(ColDenTo(M, j, k - 1), M[k][j][2])

\* the common denominator of column j of M
col_den(M, n) == [j \in 1 .. n |-> ColDenTo(M, j, n)]

RECURSIVE ProdExceptTo(_, _, _)
ProdExceptTo(cd, j, k) ==
    IF k = 0 THEN Big(1)
    ELSE IF k = j THEN ProdExceptTo(cd, j, k - 1)
    ELSE BigMulInt(ProdExceptTo(cd, j, k - 1), cd[k])

\* L: the product of the column denominators cd
mat_den(cd, n) == ProdExceptTo(cd, 0, n)

\* the factor by which one update multiplies the denominator of p
den_step(M, rv, alpha, n) ==
    BigMulInt(BigMul(mat_den(col_den(M, n), n), rv.den), alpha[2])

\* (1 - restart_prob) * W.dot(p) + restart_prob * r, computed exactly:
\* column j of M is brought to the denominator cd[j], the product M.v to the
\* denominator L * v.den, and the sum to the denominator
\* alpha_den * L * rv.den * v.den
rwr_update(M, v, rv, alpha, n) ==
    LET cd == col_den(M, n)
        u == [j \in 1 .. n |->
                IF v.num[j] = <<>> THEN <<>>
                ELSE BigMul(v.num[j], ProdExceptTo(cd, j, n))]
        Mv == [i \in 1 .. n |->
                 BigSum([j \in 1 .. n |->
                     BigMulInt(u[j], M[i][j][1] * (cd[j] \div M[i][j][2]))])]
        LD == BigMul(mat_den(cd, n), v.den)
        keep == BigMulInt(rv.den, alpha[2] - alpha[1])
        back == BigMulInt(LD, alpha[1])
    IN  [num |-> [i \in 1 .. n |->
                    BigAdd(BigMul(Mv[i], keep),
                           IF rv.num[i] = <<>> THEN <<>> ELSE back)],
         den |-> BigMulInt(BigMul(LD, rv.den), alpha[2])]

\* np.sum(np.abs(p_new - p)), as a one-entry vector; m is the factor
\* a.den / b.den of the update that produced a from b
l1_diff(a, b, m, n) ==
    [num |-> <<BigSum([i \in 1 .. n |-> BigAbsDiff(a.num[i], BigMul(b.num[i], m))])>>,
     den |-> a.den]

\* a float parameter x = <<num, den>> as a one-entry vector
Scalar(x) == [num |-> <<Big(x[1])>>, den |-> Big(x[2])]

\* diff < tol
below_tol(diff, t) == VecLess(diff, 1, Scalar(t), 1)

\* {}: the score map without entries
empty_scores == [num |-> <<>>, den |-> Big(1)]

\* the variant that returns no entries when no seed is valid
no_scores(g) == empty_scores

\* {node: 0.0 for node in nodes}
zero_scores(g) == [num |-> [i \in Nodes(g) |-> <<>>], den |-> Big(1)]

\* lines 23-60: empty-graph return, matrix, restart vector, no-seed return
RwrCall ==
    /\ pc = "call"
    /\ IF G.n = 0
       THEN /\ scores' = empty_scores
            /\ pc' = "done"
            /\ UNCHANGED <<W, r, p>>
       ELSE /\ W' = TransitionMatrix(fn, G, expression)
            /\ IF valid_seeds(G, seeds) = <<>>
               THEN /\ scores' = zero_scores(G)
                    /\ pc' = "done"
                    /\ UNCHANGED <<r, p>>
               ELSE /\ r' = restart_vector(G, valid_seeds(G, seeds))
                    /\ p' = r'
                    /\ pc' = "loop"
                    /\ UNCHANGED scores
    /\ UNCHANGED <<G, expression, norm_method, fn, seeds, restart_prob, tol, max_iter, iter, diffs>>
    /\ UNCHANGED <<samplerVars, statsVars, spVars, result>>

\* the loop body without its break
RwrIterateNoBreak ==
    /\ pc = "loop"
    /\ iter < max_iter
    /\ LET p_new == rwr_update(W, p, r, restart_prob, G.n)
           diff == l1_diff(p_new, p, den_step(W, r, restart_prob, G.n), G.n)
       IN  /\ p' = p_new
           /\ diffs' = Append(diffs, diff)
           /\ pc' = "loop"
    /\ iter' = iter + 1
    /\ UNCHANGED <<G, expression, norm_method, fn, W, seeds, restart_prob, tol, max_iter, r, scores>>
    /\ UNCHANGED <<samplerVars, statsVars, spVars, result>>

\* one pass of the body of "for _ in range(max_iter)"
RwrIterate ==
    /\ pc = "loop"
    /\ iter < max_iter
    /\ LET p_new == rwr_update(W, p, r, restart_prob, G.n)
           diff == l1_diff(p_new, p, den_step(W, r, restart_prob, G.n), G.n)
       IN  /\ p' = p_new
           /\ diffs' = Append(diffs, diff)
           /\ pc' = IF below_tol(diff, tol) THEN "return" ELSE "loop"
    /\ iter' = iter + 1
    /\ UNCHANGED <<G, expression, norm_method, fn, W, seeds, restart_prob, tol, max_iter, r, scores>>
    /\ UNCHANGED <<samplerVars, statsVars, spVars, result>>

\* the loop ended by break or by exhausting range(max_iter): return the scores
RwrReturn ==
    /\ \/ pc = "return"
       \/ pc = "loop" /\ iter = max_iter
    /\ scores' = p
    /\ pc' = "done"
    /\ UNCHANGED <<G, expression, norm_method, fn, W, seeds, restart_prob, tol, max_iter, r, p,
                   iter, diffs>>
    /\ UNCHANGED <<samplerVars, statsVars, spVars, result>>

RECURSIVE ListsUpTo(_, _)
ListsUpTo(S, k) ==
    IF k = 0 THEN {<<>>}
    ELSE LET shorter == ListsUpTo(S, k - 1)
         IN  shorter \cup {Append(l, x) : l \in shorter, x \in S}

Range(l) == {l[i] : i \in DOMAIN l}

\* Seed and target lists up to a renaming of the nodes (the graph families
\* hold every labelling of every graph): the nodes named appear in the order
\* 1, 2, ..., and every label that is not a node of the graph is written n + 1.
\* The weighted engine, whose expression dictionary tells the nodes apart, is
\* given every list.
NextLabels(l, n) ==
    {x \in 1 .. n : x <= Cardinality(Range(l) \cap (1 .. n)) + 1} \cup {n + 1}

TargetLists(n, k) ==
    {l \in ListsUpTo(1 .. n + 1, k) :
        \A i \in DOMAIN l : l[i] \in NextLabels(SubSeq(l, 1, i - 1), n)}

\* the parameter settings of the model: the defaults (restart 0.15, tolerance
\* 1e-6), under which the cap ends the loop, and the restart probability 0.7 of
\* the liver analysis with a coarse tolerance, under which the walk converges
RwrParams ==
    {[restart_prob |-> <<3, 20>>, tol |-> <<1, 1000000>>],
     [restart_prob |-> <<7, 10>>, tol |-> <<1, 2>>]}

\* the expression dictionary handed to the weighted engine: node 1 high, node 2
\* lower, the others missing (all labelled graphs are tried against it)
RwrExprMaps == {<<15, 7>>}

InitRWR ==
    /\ pc = "call"
    /\ G \in Graphs
    /\ fn \in {"run_rwr", "run_standard_rwr", "run_expression_weighted_rwr"}
    /\ expression \in IF fn = "run_expression_weighted_rwr"
                      THEN RwrExprMaps ELSE {<<>>}
    /\ norm_method = "log_minmax"
    /\ seeds \in IF fn = "run_expression_weighted_rwr"
                 THEN ListsUpTo(1 .. G.n + 1, MaxSeeds)
                 ELSE TargetLists(G.n, MaxSeeds)
    /\ \E prm \in RwrParams : restart_prob = prm.restart_prob /\ tol = prm.tol
    /\ max_iter \in {0, MaxIter}
    /\ W = <<>>
    /\ r = <<>>
    /\ p = <<>>
    /\ iter = 0
    /\ diffs = <<>>
    /\ scores = "none"
    /\ result = "none"
    /\ SamplerIdle /\ StatsIdle /\ SpIdle

NextRWR == RwrCall \/ RwrIterate \/ RwrReturn

SpecRWR == InitRWR /\ [][NextRWR]_vars


\* ----------------------------------------------------------- return values
NaN == [kind |-> "nan"]
Float(x) == [kind |-> "float", value |-> x]
Raises(e) == [kind |-> "raise", error |-> e]

\* -------------------------------------- specification: the normalization
\* the array the call returns; expr_values.min() of an empty array raises
NormalizeCall ==
    /\ pc = "call"
    /\ fn = "normalize_expression_values"
    /\ result' = IF G.n = 0 THEN Raises("ValueError")
                 ELSE [kind |-> "array",
                       value |-> normalize_expression_values(expression, G.n, norm_method)]
    /\ pc' = "done"
    /\ UNCHANGED <<G, fn, iter, rwrVars, samplerVars, statsVars, spVars>>

\* raw TPM levels of the calls: those of the matrix builder and one more than
\* a hundred times the smallest positive one
NormalizeLevels == ExprLevels \cup {127}

InitNormalize ==
    /\ pc = "call"
    /\ fn = "normalize_expression_values"
    /\ G \in {[n |-> k, E |-> {}] : k \in 0 .. MaxNodes}
    /\ expression \in UNION {[D -> NormalizeLevels] :
                        D \in {S \in SUBSET (1 .. G.n) : Cardinality(S) <= MaxExprEntries}}
    /\ norm_method \in {"minmax", "log_minmax"}
    /\ W = <<>> /\ seeds = <<>>
    /\ restart_prob = <<0, 1>> /\ tol = <<0, 1>> /\ max_iter = 0
    /\ r = <<>> /\ p = <<>> /\ diffs = <<>> /\ scores = "none"
    /\ iter = 0
    /\ result = [kind |-> "none"]
    /\ SamplerIdle /\ StatsIdle /\ SpIdle

NextNormalize == NormalizeCall

SpecNormalize == InitNormalize /\ [][NextNormalize]_vars

\* ------------------------------------------------- degree-matched sampler
\* the graphs of the sampler: one node more, so that a degree can lie outside
\* every band
SmallSamplerGraphs == SimpleGraphs(MaxNodes + 1)

\* the hub degrees of the tolerance test: T (10), C1 (8), C2 (12), C3 (13)
HubDegrees == <<10, 8, 12, 13>>

RECURSIVE LeavesBefore(_, _)
LeavesBefore(hubs, i) == IF i = 1 THEN 0 ELSE LeavesBefore(hubs, i - 1) + hubs[i - 1]

\* a forest of stars: node i <= Len(hubs) is a hub with hubs[i] leaves of its own
StarForest(hubs) ==
    LET h == Len(hubs)
        first(i) == h + LeavesBefore(hubs, i) + 1
    IN  [n |-> h + LeavesBefore(hubs, h + 1),
         E |-> UNION {{<<i, l>> : l \in first(i) .. first(i) + hubs[i] - 1} : i \in 1 .. h}]

Rotate(l, k) == [i \in 1 .. Len(l) |-> l[((i + k - 1) % Len(l)) + 1]]

\* the graph of the tolerance test, with each of its hubs in turn as node 1;
\* as in the test, it is sampled for one target
StarForests == {StarForest(Rotate(HubDegrees, k)) : k \in 0 .. Len(HubDegrees) - 1}

SamplerGraphs == SmallSamplerGraphs \cup StarForests

\* dict(G.degree())[v]
degree(g, v) ==
    Cardinality({e \in g.E : e[1] = v}) + Cardinality({e \in g.E : e[2] = v})

\* [degrees[t] for t in targets if t in degrees]
degrees_of(g, ts) ==
    LET present == SelectSeq(ts, LAMBDA t : t \in Nodes(g))
    IN  [i \in 1 .. Len(present) |-> degree(g, present[i])]

\* l[:k] for k >= 0
take(l, k) == SubSeq(l, 1, IF k < Len(l) THEN k ELSE Len(l))

\* the variant with a tolerance of a third of the degree
degree_tol_third(deg) == IF deg \div 3 > 1 THEN deg \div 3 ELSE 1

\* max(1, int(deg * 0.25))
degree_tol(deg) == IF deg \div 4 > 1 THEN deg \div 4 ELSE 1

\* the variant of the band that does not look at the nodes already chosen
in_band_with_chosen(g, deg, ts, chosen) ==
    {n \in Nodes(g) : /\ Abs(degree(g, n) - deg) <= degree_tol(deg)
                      /\ n \notin Range(ts)}

\* the candidates of lines 31-34
in_band(g, deg, ts, chosen) ==
    {n \in Nodes(g) : /\ Abs(degree(g, n) - deg) <= degree_tol(deg)
                      /\ n \notin Range(ts)
                      /\ n \notin Range(chosen)}

\* the variant of the fallback that draws from every node of the graph
fallback_all_nodes(g, ts, chosen) == Nodes(g)

\* the candidates of line 36
fallback(g, ts, chosen) ==
    {n \in Nodes(g) : n \notin Range(ts) /\ n \notin Range(chosen)}

\* seed=None
None == -1

\* the global generator seeded by the operating system: its state is unknown
Entropy == [kind |-> "entropy"]

\* the size of the state space of the generator that stands for MT19937
RngStates == 8

\* the state after np.random.seed(s)
Seeded(s) == [kind |-> "seeded", state |-> s % RngStates]

\* the state after one draw
advance(g) ==
    IF g.kind = "entropy" THEN g
    ELSE [kind |-> "seeded", state |-> (5 * g.state + 3) % RngStates]

\* the k-th element of a set of nodes listed in node order
RECURSIVE nth(_, _)
nth(S, k) ==
    LET least == CHOOSE x \in S : \A y \in S : x <= y
    IN  IF k = 1 THEN least ELSE nth(S \ {least}, k - 1)

\* the variant of the seeding that leaves the generator as it is
reseed_never(g, s) == g

\* lines 20-21
reseed(g, s) == IF s # None THEN Seeded(s) ELSE g

\* np.random.choice(candidates): the values a draw can return, a function of
\* the state of the generator when that state is known
np_random_choice(g, candidates) ==
    IF g.kind = "entropy" THEN candidates
    ELSE {nth(candidates, (g.state % Cardinality(candidates)) + 1)}

\* lines 20-27
SamplerCall ==
    /\ pc = "call"
    /\ fn = "get_degree_matched_random"
    /\ rng' = reseed(rng, seed)
    /\ target_degrees' = degrees_of(G, targets)
    /\ random_set' = <<>>
    /\ pc' = "loop"
    /\ UNCHANGED <<G, fn, iter, result, targets, n_sample, seed, previous, bins,
                   rwrVars, statsVars, spVars>>

\* one pass of the body of "for deg in target_degrees[:n_sample]"
SamplerPick ==
    /\ pc = "loop"
    /\ fn = "get_degree_matched_random"
    /\ iter < Len(take(target_degrees, n_sample))
    /\ LET deg == target_degrees[iter + 1]
           matched == in_band(G, deg, targets, random_set)
           candidates == IF matched = {} THEN fallback(G, targets, random_set)
                         ELSE matched
       IN  IF candidates # {}
           THEN /\ \E choice \in np_random_choice(rng, candidates) :
                      random_set' = Append(random_set, choice)
                /\ rng' = advance(rng)
           ELSE UNCHANGED <<random_set, rng>>
    /\ iter' = iter + 1
    /\ UNCHANGED <<pc, G, fn, result, targets, n_sample, target_degrees, seed, previous, bins,
                   rwrVars, statsVars, spVars>>

\* line 40
SamplerReturn ==
    /\ pc = "loop"
    /\ fn = "get_degree_matched_random"
    /\ iter = Len(take(target_degrees, n_sample))
    /\ result' = random_set
    /\ pc' = "done"
    /\ UNCHANGED <<G, fn, iter, samplerVars, rwrVars, statsVars, spVars>>

InitSampler ==
    /\ pc = "call"
    /\ fn = "get_degree_matched_random"
    /\ G \in SamplerGraphs
    /\ targets \in TargetLists(G.n, IF G \in StarForests THEN 1 ELSE MaxTargets)
    /\ n_sample \in 0 .. Len(targets) + 1
    /\ target_degrees = <<>>
    /\ random_set = <<>>
    /\ iter = 0
    /\ result = <<>>
    /\ seed = None /\ rng = Entropy /\ previous = <<>> /\ bins = <<>>
    /\ RwrIdle /\ StatsIdle /\ SpIdle

NextSampler == SamplerCall \/ SamplerPick \/ SamplerReturn

SpecSampler == InitSampler /\ [][NextSampler]_vars

\* ---------------------------------------------- seeded calls of the sampler
\* a draw from the global generator by other code, between two calls
OtherDraw ==
    /\ pc = "done"
    /\ fn = "get_degree_matched_random"
    /\ rng' = advance(rng)
    /\ UNCHANGED <<pc, G, fn, iter, result, targets, n_sample, target_degrees,
                   random_set, seed, previous, bins, rwrVars, statsVars, spVars>>

\* the caller keeps the returned list and calls again with the same arguments
CallAgain ==
    /\ pc = "done"
    /\ fn = "get_degree_matched_random"
    /\ Len(previous) < MaxCalls - 1
    /\ previous' = Append(previous, result)
    /\ iter' = 0
    /\ pc' = "call"
    /\ UNCHANGED <<G, fn, result, targets, n_sample, target_degrees, random_set,
                   seed, rng, bins, rwrVars, statsVars, spVars>>

InitSeeded ==
    /\ pc = "call"
    /\ fn = "get_degree_matched_random"
    /\ G \in Graphs
    /\ targets \in TargetLists(G.n, MaxTargets)
    /\ n_sample \in 0 .. Len(targets)
    /\ target_degrees = <<>>
    /\ random_set = <<>>
    /\ iter = 0
    /\ result = <<>>
    /\ seed \in {None} \cup (0 .. MaxSeed)
    /\ rng = Entropy
    /\ previous = <<>> /\ bins = <<>>
    /\ RwrIdle /\ StatsIdle /\ SpIdle

NextSeeded == SamplerCall \/ SamplerPick \/ SamplerReturn \/ OtherDraw \/ CallAgain

SpecSeeded == InitSeeded /\ [][NextSeeded]_vars

\* ------------------------------------------------------------ self-loops
\* dict(G.degree()): the degree of every node, a self-loop counted twice
degrees(g) == [v \in Nodes(g) |-> degree(g, v)]

\* what the caller keeps of a finished call: the score map of run_rwr, the
\* degrees that get_degree_matched_random worked with
kept == IF fn = "run_rwr" THEN scores ELSE degrees(G)

\* G.add_edge(v, v) between two calls with the same arguments
AddSelfLoop ==
    /\ pc = "done"
    /\ previous = <<>>
    /\ \E v \in Nodes(G) : G' = [G EXCEPT !.E = @ \cup {<<v, v>>}]
    /\ previous' = <<kept>>
    /\ iter' = 0
    /\ diffs' = <<>>
    /\ pc' = "call"
    /\ UNCHANGED <<fn, result, expression, norm_method, W, seeds, restart_prob,
                   tol, max_iter, r, p, scores, targets, n_sample,
                   target_degrees, random_set, seed, rng, bins, statsVars,
                   spVars>>

InitSelfLoop ==
    /\ pc = "call"
    /\ G \in Graphs
    /\ fn \in {"run_rwr", "get_degree_matched_random"}
    /\ iter = 0
    /\ previous = <<>> /\ bins = <<>>
    /\ IF fn = "run_rwr"
       THEN /\ expression = <<>> /\ norm_method = "log_minmax"
            /\ seeds \in TargetLists(G.n, MaxSeeds)
            /\ \E prm \in RwrParams :
                   restart_prob = prm.restart_prob /\ tol = prm.tol
            /\ max_iter \in {0, MaxIter}
            /\ W = <<>> /\ r = <<>> /\ p = <<>> /\ diffs = <<>>
            /\ scores = "none"
            /\ result = "none"
            /\ targets = <<>> /\ n_sample = 0 /\ target_degrees = <<>>
            /\ random_set = <<>> /\ seed = None /\ rng = Entropy
       ELSE /\ targets \in TargetLists(G.n, MaxTargets)
            /\ n_sample = Len(targets)
            /\ target_degrees = <<>>
            /\ random_set = <<>>
            /\ result = <<>>
            /\ seed \in 0 .. MaxSeed
            /\ rng = Entropy
            /\ RwrIdle
    /\ StatsIdle /\ SpIdle

NextSelfLoop ==
    \/ fn = "run_rwr" /\ (RwrCall \/ RwrIterate \/ RwrReturn)
    \/ SamplerCall \/ SamplerPick \/ SamplerReturn
    \/ AddSelfLoop

SpecSelfLoop == InitSelfLoop /\ [][NextSelfLoop]_vars

\* ------------------------------------------------------ the other samplers
MaxBin == 2

ScriptSampler == "run_shortest_path_permutations.get_degree_matched_random"
SeedsSampler == "get_degree_matched_random_seeds"
NullModelSampler == "NullModel.get_degree_matched_random_set"

\* the keys of a dictionary built from the list l: first occurrences, in order
RECURSIVE dict_keys(_)
dict_keys(l) ==
    IF l = <<>> THEN <<>>
    ELSE LET front == dict_keys(SubSeq(l, 1, Len(l) - 1))
             x == l[Len(l)]
         IN  IF x \in Range(front) THEN front ELSE Append(front, x)

\* script: {t: G.degree(t) for t in targets if t in G}, as the list of its
\* items; seeds sampler: the valid seeds with G.degree(seed)
items(g, keys) ==
    [i \in 1 .. Len(keys) |-> [target |-> keys[i], degree |-> degree(g, keys[i])]]

\* script: min_deg = int(degree * 0.75), max_deg = int(degree * 1.25) + 1
script_band(deg) == [min |-> (3 * deg) \div 4, max |-> (5 * deg) \div 4 + 1]

\* seeds sampler: int(seed_degree * (1 - 0.25)), int(seed_degree * (1 + 0.25))
seeds_band(deg) == [min |-> (3 * deg) \div 4, max |-> (5 * deg) \div 4]

\* the nodes of pool with a degree in the band that were not chosen before
candidates_in(g, pool, band, chosen) ==
    {n \in pool : /\ band.min <= degree(g, n) /\ degree(g, n) <= band.max
                  /\ n \notin Range(chosen)}

\* [n for n in nodes_in_G if n in expression]
expressed_nodes(g, e) == Nodes(g) \cap DOMAIN e

\* the place of node v in sorted(self.nodes, key=lambda n: self.degrees[n]),
\* counted from 0: the sort is stable
sorted_index(g, v) ==
    Cardinality({u \in Nodes(g) : \/ degree(g, u) < degree(g, v)
                                  \/ degree(g, u) = degree(g, v) /\ u < v})

\* NullModel._create_bins(bin_size): every node is mapped to its chunk
create_bins(g, bin_size) ==
    [v \in Nodes(g) |->
        {u \in Nodes(g) :
            sorted_index(g, u) \div bin_size = sorted_index(g, v) \div bin_size}]

\* the list each sampler loops over
loop_list ==
    IF fn = NullModelSampler THEN targets ELSE target_degrees

\* the statements before the loop of each of the three samplers
OthersCall ==
    /\ pc = "call"
    /\ fn \in {ScriptSampler, SeedsSampler, NullModelSampler}
    /\ random_set' = <<>>
    /\ target_degrees' =
         IF fn = ScriptSampler THEN items(G, dict_keys(valid_seeds(G, targets)))
         ELSE IF fn = SeedsSampler THEN items(G, valid_seeds(G, targets))
         ELSE <<>>
    /\ IF fn = SeedsSampler /\ valid_seeds(G, targets) = <<>>
       THEN result' = <<>> /\ pc' = "done"
       ELSE UNCHANGED result /\ pc' = "loop"
    /\ UNCHANGED <<G, fn, iter, targets, n_sample, seed, rng, previous, bins,
                   rwrVars, statsVars, spVars>>

\* script: one pass of "for target, degree in target_degrees.items()"
ScriptPick ==
    /\ pc = "loop"
    /\ fn = ScriptSampler
    /\ iter < Len(target_degrees)
    /\ LET candidates == candidates_in(G, Nodes(G),
                                       script_band(target_degrees[iter + 1].degree),
                                       random_set)
           pool == IF candidates # {} THEN candidates ELSE Nodes(G)
       IN  \E choice \in np_random_choice(rng, pool) :
               random_set' = Append(random_set, choice)
    /\ rng' = advance(rng)
    /\ iter' = iter + 1
    /\ UNCHANGED <<pc, G, fn, result, targets, n_sample, target_degrees, seed,
                   previous, bins, rwrVars, statsVars, spVars>>

\* seeds sampler: one pass of "for seed in valid_seeds"
SeedsPick ==
    /\ pc = "loop"
    /\ fn = SeedsSampler
    /\ iter < Len(target_degrees)
    /\ LET expressed == expressed_nodes(G, expression)
           candidates == candidates_in(G, expressed,
                                       seeds_band(target_degrees[iter + 1].degree),
                                       random_set)
           pool == IF candidates # {} THEN candidates
                   ELSE expressed \ Range(random_set)
       IN  IF pool # {}
           THEN \E choice \in pool : random_set' = Append(random_set, choice)
           ELSE UNCHANGED random_set
    /\ iter' = iter + 1
    /\ UNCHANGED <<pc, G, fn, result, targets, n_sample, target_degrees, seed,
                   rng, previous, bins, rwrVars, statsVars, spVars>>

\* NullModel: one draw of random.choice in the body of "for node in
\* target_list"; a partner that is in random_set already is drawn again
NullModelPick ==
    /\ pc = "loop"
    /\ fn = NullModelSampler
    /\ iter < Len(targets)
    /\ LET node == targets[iter + 1]
       IN  IF node \notin DOMAIN bins
           THEN IF G.n = 0
                THEN /\ result' = Raises("IndexError")
                     /\ pc' = "raised"
                     /\ UNCHANGED <<random_set, iter>>
                ELSE /\ \E choice \in Nodes(G) :
                          random_set' = Append(random_set, choice)
                     /\ iter' = iter + 1
                     /\ UNCHANGED <<pc, result>>
           ELSE /\ \E random_partner \in bins[node] :
                     IF random_partner \in Range(random_set)
                     THEN UNCHANGED <<random_set, iter>>
                     ELSE /\ random_set' = Append(random_set, random_partner)
                          /\ iter' = iter + 1
                /\ UNCHANGED <<pc, result>>
    /\ UNCHANGED <<G, fn, targets, n_sample, target_degrees, seed, rng,
                   previous, bins, rwrVars, statsVars, spVars>>

\* the return statement: the script returns the list of its random sets
OthersReturn ==
    /\ pc = "loop"
    /\ fn \in {ScriptSampler, SeedsSampler, NullModelSampler}
    /\ iter = Len(loop_list)
    /\ result' = IF fn = ScriptSampler THEN <<random_set>> ELSE random_set
    /\ pc' = "done"
    /\ UNCHANGED <<G, fn, iter, samplerVars, rwrVars, statsVars, spVars>>

\* the expression dictionaries of the seeds sampler: the first k nodes have
\* an entry
ExpressedUpTo(n) == {[i \in 1 .. k |-> 1] : k \in 0 .. n}

InitOthers ==
    /\ pc = "call"
    /\ fn \in {ScriptSampler, SeedsSampler, NullModelSampler}
    /\ G \in Graphs
    /\ targets \in TargetLists(G.n, MaxTargets)
    /\ expression \in IF fn = SeedsSampler THEN ExpressedUpTo(G.n) ELSE {<<>>}
    /\ bins \in IF fn = NullModelSampler
                 THEN {create_bins(G, bin_size) : bin_size \in 1 .. MaxBin}
                 ELSE {<<>>}
    /\ norm_method = "log_minmax" /\ W = <<>> /\ seeds = <<>>
    /\ restart_prob = <<0, 1>> /\ tol = <<0, 1>> /\ max_iter = 0
    /\ r = <<>> /\ p = <<>> /\ diffs = <<>> /\ scores = "none"
    /\ n_sample = 0 /\ target_degrees = <<>> /\ random_set = <<>>
    /\ seed = None /\ rng = Entropy /\ previous = <<>>
    /\ iter = 0
    /\ result = <<>>
    /\ StatsIdle /\ SpIdle

NextOthers == OthersCall \/ ScriptPick \/ SeedsPick \/ NullModelPick \/ OthersReturn

SpecOthers == InitOthers /\ [][NextOthers]_vars

\* the interpreter runs a started call on: a statement that can be executed
\* is executed, and a draw that is repeated while some node of the bin is
\* still free returns a free node at some time
SpecOthersFair == SpecOthers /\ WF_vars(NextOthers)

\* ------------------------------------------------------ float64 rounding
\* np.mean and np.std compute in IEEE-754 binary64.  A double is 0 or m * 2^e
\* with 2^52 <= m < 2^53, kept as [m |-> unbounded natural, e |-> exponent];
\* every operation below returns the exact result rounded to the nearest
\* double, ties to even (the values of the model stay far from overflow and
\* from the subnormal range).
MantissaBits == 53

RECURSIVE BigPow2(_)
BigPow2(k) ==
    IF k = 0 THEN Big(1)
    ELSE IF k % 2 = 1 THEN BigMulInt(BigPow2(k - 1), 2)
    ELSE LET h == BigPow2(k \div 2) IN BigMul(h, h)

\* the number of binary digits of a: the least k in lo..hi with a < 2^k
RECURSIVE BitLenIn(_, _, _)
BitLenIn(a, lo, hi) ==
    IF lo = hi THEN lo
    ELSE LET mid == (lo + hi) \div 2
         IN  IF BigLess(a, BigPow2(mid)) THEN BitLenIn(a, lo, mid)
             ELSE BitLenIn(a, mid + 1, hi)

BitLen(a) == BitLenIn(a, 0, 4 * MantissaBits)

\* quotient and remainder of a by a machine integer d >= 1
RECURSIVE BigDivRem(_, _)
BigDivRem(a, d) ==
    IF a = <<>> THEN [q |-> <<>>, r |-> 0]
    ELSE LET hi == BigDivRem(Tail(a), d)
             x  == hi.r * Base + Head(a)
         IN  [q |-> BigStrip(<<x \div d>> \o hi.q), r |-> x % d]

FZero == [m |-> <<>>, e |-> 0]

\* the double nearest to (N / d) * 2^s, ties to even, for a natural N and a
\* machine integer d >= 1: m * 2^e with 2^52 <= m < 2^53
FRound(N, d, s) ==
    IF N = <<>> THEN FZero
    ELSE LET divide(t) == IF t >= 0 THEN BigDivRem(BigMul(N, BigPow2(t)), d)
                          ELSE BigDivRem(N, d * (2 ^ (-t)))
             den(t) == IF t >= 0 THEN d ELSE d * (2 ^ (-t))
             t0 == MantissaBits - BitLen(N) + BitLen(Big(d))
             t  == IF BigLess(divide(t0).q, BigPow2(MantissaBits)) THEN t0 ELSE t0 - 1
             qr == divide(t)
             up == \/ 2 * qr.r > den(t)
                   \/ 2 * qr.r = den(t) /\ qr.q[1] % 2 = 1
             m  == IF up THEN BigAdd(qr.q, Big(1)) ELSE qr.q
         IN  IF m = BigPow2(MantissaBits)
             THEN [m |-> BigPow2(MantissaBits - 1), e |-> s - t + 1]
             ELSE [m |-> m, e |-> s - t]

\* a + b for doubles a, b >= 0
FAdd(a, b) ==
    IF a = FZero THEN b
    ELSE IF b = FZero THEN a
    ELSE LET e == IF a.e < b.e THEN a.e ELSE b.e
         IN  FRound(BigAdd(BigMul(a.m, BigPow2(a.e - e)), BigMul(b.m, BigPow2(b.e - e))),
                    1, e)

\* a / n for a double a >= 0 and an integer n >= 1
FDivInt(a, n) == FRound(a.m, n, a.e)

\* the double written as the decimal literal k / d
Double(k, d) == FRound(Big(k), d, 0)

\* ------------------------------------------------------ empirical p-value
\* x >= obs and x <= obs for a number x: False when obs is NaN
geq(x, obs) == obs.kind = "float" /\ x >= obs.value
leq(x, obs) == obs.kind = "float" /\ x <= obs.value

\* the variant that counts only the null values strictly above the observed one
count_gt(null, obs) ==
    Cardinality({i \in DOMAIN null : geq(null[i], obs) /\ ~leq(null[i], obs)})

\* np.sum(null_dist >= observed)
count_geq(null, obs) == Cardinality({i \in DOMAIN null : geq(null[i], obs)})

\* np.sum(null_dist <= observed)
count_leq(null, obs) == Cardinality({i \in DOMAIN null : leq(null[i], obs)})

RMin(x, y) == IF RLess(y, x) THEN y ELSE x

calculate_empirical_p_value(obs, null, t) ==
    LET n == Len(null)
        p_greater == Rat(count_geq(null, obs) + 1, n + 1)
        p_less == Rat(count_leq(null, obs) + 1, n + 1)
    IN  IF n = 0 THEN NaN
        ELSE IF t = "one_greater" THEN Float(p_greater)
        ELSE IF t = "one_less" THEN Float(p_less)
        ELSE IF t = "two" THEN Float(RMul(<<2, 1>>, RMin(p_less, p_greater)))
        ELSE Raises("ValueError")

EmpiricalCall ==
    /\ pc = "call"
    /\ fn = "calculate_empirical_p_value"
    /\ result' = calculate_empirical_p_value(observed, null_distribution, tail)
    /\ pc' = "done"
    /\ UNCHANGED <<G, fn, iter, rwrVars, samplerVars, statsVars, spVars>>

\* the observed and null values of the model
Values == 0 .. MaxValue

\* the observed values of the model: the numbers and NaN
Observations == {Float(v) : v \in Values} \cup {NaN}

\* the accepted tail options and one that is not accepted
Tails == {"one_greater", "one_less", "two", "both"}

InitStats ==
    /\ pc = "call"
    /\ fn = "calculate_empirical_p_value"
    /\ G = [n |-> 0, E |-> {}]
    /\ observed \in Observations
    /\ null_distribution \in ListsUpTo(Values, MaxNull)
    /\ tail \in Tails
    /\ results_df = <<>>
    /\ iter = 0
    /\ result = [kind |-> "none"]
    /\ RwrIdle /\ SamplerIdle /\ SpIdle

NextStats == EmpiricalCall

SpecStats == InitStats /\ [][NextStats]_vars

\* ----------------------------------------------------------------- z-score
\* the running sum of the first k doubles of null, from 0.0
RECURSIVE np_sum(_, _)
np_sum(null, k) == IF k = 0 THEN FZero ELSE FAdd(np_sum(null, k - 1), null[k])

\* np.mean(null_dist): the rounded sum divided by the length, NaN for no values
np_mean(null) ==
    IF null = <<>> THEN NaN ELSE Float(FDivInt(np_sum(null, Len(null)), Len(null)))

\* np.std(null_dist): sqrt(sum((x - mean)^2) / (n - ddof)) with ddof = 0 and the
\* mean of np.mean, kept as its operands; NaN for no values
np_std(null) ==
    IF null = <<>> THEN NaN
    ELSE Float([x |-> null, mean |-> np_mean(null).value, ddof |-> 0])

\* null_std > 0: some value differs from the rounded mean (the squares of the
\* model's differences are far above the subnormal range); False for NaN
positive(std) ==
    std.kind = "float" /\ \E i \in DOMAIN std.value.x : std.value.x[i] # std.value.mean

\* (obs - null_mean) / null_std for null_std > 0, kept as its operands
quotient(obs, mean, std) ==
    IF obs.kind = "nan" THEN NaN
    ELSE IF obs.value = mean.value THEN Float(FZero)
    ELSE Float([minuend |-> obs.value, subtrahend |-> mean.value, divisor |-> std.value])

calculate_z_score(obs, null_dist) ==
    LET null_mean == np_mean(null_dist)
        null_std == np_std(null_dist)
    IN  IF positive(null_std) THEN quotient(obs, null_mean, null_std)
        ELSE Float(FZero)

ZScoreCall ==
    /\ pc = "call"
    /\ fn = "calculate_z_score"
    /\ result' = calculate_z_score(observed, null_distribution)
    /\ pc' = "done"
    /\ UNCHANGED <<G, fn, iter, rwrVars, samplerVars, statsVars, spVars>>

\* the doubles of the model: the decimal literals 0.0, 0.1, 0.2, ...
Doubles == {Double(k, 10) : k \in Values}

InitZScore ==
    /\ pc = "call"
    /\ fn = "calculate_z_score"
    /\ G = [n |-> 0, E |-> {}]
    /\ observed \in {Float(x) : x \in Doubles} \cup {NaN}
    /\ null_distribution \in ListsUpTo(Doubles, MaxNull)
    /\ tail = "none"
    /\ results_df = <<>>
    /\ iter = 0
    /\ result = [kind |-> "none"]
    /\ RwrIdle /\ SamplerIdle /\ SpIdle

NextZScore == ZScoreCall

SpecZScore == InitZScore /\ [][NextZScore]_vars

\* both functions of the statistical testing layer
InitTesting == InitStats \/ InitZScore

NextTesting == EmpiricalCall \/ ZScoreCall

SpecTesting == InitTesting /\ [][NextTesting]_vars

\* ------------------------------------------- result tables of the scripts
\* the float 1e-16 times a rational; the rationals of the model lie between
\* 1/100 and 100, so such a number is below every positive Float of the model
Tiny(x) == [kind |-> "e-16", value |-> x]

\* x < y for numbers x and y that are not NaN
lt(x, y) ==
    IF x.kind = y.kind THEN RLess(x.value, y.value)
    ELSE IF x.kind = "e-16" THEN RLess(Zero, y.value)
    ELSE RLess(x.value, Zero) \/ x.value = Zero

\* multipletests(pvals, method='fdr_bh')[1] at index i, for the p-values P of
\* the rows S: min(1, min over the ranks from i's upwards of p * m / rank)
fdr_bh(P, S, i) ==
    LET m == Cardinality(S)
        rank(j) == Cardinality({k \in S : ~lt(P[j], P[k])})
        raw(j) == [P[j] EXCEPT !.value = RMul(@, Rat(m, rank(j)))]
        above == {raw(j) : j \in {k \in S : ~lt(P[k], P[i])}}
        least == CHOOSE x \in above : \A y \in above : ~lt(y, x)
    IN  IF lt(Float(One), least) THEN Float(One) ELSE least

\* .fillna(1.0)
fillna(x) == IF x = NaN THEN Float(One) ELSE x

\* alpha = 0.05
Alpha == Float(<<1, 20>>)

\* run_expression_weighted_rwr_permutations.py, run_standard_rwr_lcc_permutations.py:
\* the correction within each network threshold
fdr_within_threshold(df) ==
    [i \in DOMAIN df |->
        LET mask == {j \in DOMAIN df : df[j].network_threshold = df[i].network_threshold}
            pvals == [j \in DOMAIN df |-> fillna(df[j].p_value)]
            p_fdr == fdr_bh(pvals, mask, i)
        IN  [network_threshold |-> df[i].network_threshold, p_value |-> df[i].p_value,
             p_fdr |-> p_fdr, significant |-> lt(p_fdr, Alpha)]]

\* run_validation_700.py: one correction over the table
fdr_over_table(df) ==
    [i \in DOMAIN df |->
        LET pvals == [j \in DOMAIN df |-> fillna(df[j].p_value)]
            p_fdr == fdr_bh(pvals, DOMAIN df, i)
        IN  [network_threshold |-> df[i].network_threshold, p_value |-> df[i].p_value,
             p_fdr |-> p_fdr, significant |-> lt(p_fdr, Alpha)]]

\* 1e-16 if result['p_value'] == 0.0 else result['p_value']
p_value_display(x) == IF x = Float(Zero) THEN Tiny(One) ELSE x

\* run_shortest_path_permutations.py: the rows carry the flag of the raw
\* p-value, and the correction over the table adds the column p_fdr
fdr_after_flag(df) ==
    [i \in DOMAIN df |->
        LET p_values == [j \in DOMAIN df |-> p_value_display(df[j].p_value)]
        IN  [network_threshold |-> df[i].network_threshold, p_value |-> p_values[i],
             p_fdr |-> fdr_bh(p_values, DOMAIN df, i),
             significant |-> lt(p_values[i], Alpha)]]

ExpressionWeightedTable ==
    /\ pc = "call"
    /\ fn = "run_expression_weighted_rwr_permutations"
    /\ results_df' = fdr_within_threshold(results_df)
    /\ pc' = "done"
    /\ UNCHANGED <<G, fn, iter, result, observed, null_distribution, tail,
                   rwrVars, samplerVars, spVars>>

ShortestPathTable ==
    /\ pc = "call"
    /\ fn = "run_shortest_path_permutations"
    /\ results_df' = fdr_after_flag(results_df)
    /\ pc' = "done"
    /\ UNCHANGED <<G, fn, iter, result, observed, null_distribution, tail,
                   rwrVars, samplerVars, spVars>>

ValidationTable ==
    /\ pc = "call"
    /\ fn = "run_validation_700"
    /\ results_df' = fdr_over_table(results_df)
    /\ pc' = "done"
    /\ UNCHANGED <<G, fn, iter, result, observed, null_distribution, tail,
                   rwrVars, samplerVars, spVars>>

\* the raw p-values of the model: 0, 0.02, 0.04, 0.5, 1
PValues == {Float(Rat(k, 100)) : k \in {0, 2, 4, 50, 100}}

\* the network thresholds of the scripts
Thresholds == {700, 900}

\* the tables before the correction; the shortest-path script always has rows,
\* and its p-values are fractions of the null distribution
Rows(fname) ==
    [network_threshold : Thresholds,
     p_value : IF fname = "run_shortest_path_permutations" THEN PValues
               ELSE PValues \cup {NaN}]

InitTables ==
    /\ pc = "call"
    /\ fn \in {"run_expression_weighted_rwr_permutations",
               "run_shortest_path_permutations", "run_validation_700"}
    /\ G = [n |-> 0, E |-> {}]
    /\ results_df \in ListsUpTo(Rows(fn), MaxRows)
    /\ fn = "run_shortest_path_permutations" => results_df # <<>>
    /\ observed = Float(0) /\ null_distribution = <<>> /\ tail = "none"
    /\ iter = 0
    /\ result = [kind |-> "none"]
    /\ RwrIdle /\ SamplerIdle /\ SpIdle

NextTables == ExpressionWeightedTable \/ ShortestPathTable \/ ValidationTable

SpecTables == InitTables /\ [][NextTables]_vars

\* ------------------------------------------------- shortest-path proximity
RECURSIVE bfs(_, _, _, _, _)
bfs(g, frontier, seen, target, d) ==
    IF target \in frontier THEN {d}
    ELSE LET next == {j \in Nodes(g) \ seen : \E i \in frontier : HasEdge(g, i, j)}
         IN  IF next = {} THEN {}
             ELSE bfs(g, next, seen \cup next, target, d + 1)

\* nx.shortest_path_length(G, source, target) for nodes of G: {length}, or {}
\* when it raises NetworkXNoPath
shortest_path_length(g, source, target) == bfs(g, {source}, {source}, target, 0)

SetMin(S) == CHOOSE x \in S : \A y \in S : x <= y

RECURSIVE SumTo(_, _)
SumTo(f, k) == IF k = 0 THEN 0 ELSE SumTo(f, k - 1) + f[k]

\* np.mean(distances)
mean(l) == Rat(SumTo(l, Len(l)), Len(l))

\* the variant that counts a target without a path as distance 0
collect_zero_filled(ds, found) == Append(ds, IF found = {} THEN 0 ELSE SetMin(found))

\* lines 35-36: min_dist is appended unless it is still infinite
collect(ds, found) == IF found = {} THEN ds ELSE Append(ds, SetMin(found))

\* lines 20-26
ProximityCall ==
    /\ pc = "call"
    /\ fn = "calculate_shortest_path"
    /\ targets_in' = SelectSeq(drug_targets, LAMBDA t : t \in Nodes(G))
    /\ disease_in' = disease_genes \cap Nodes(G)
    /\ IF targets_in' = <<>> \/ disease_in' = {}
       THEN result' = NaN /\ pc' = "done"
       ELSE UNCHANGED result /\ pc' = "loop"
    /\ distances' = <<>>
    /\ UNCHANGED <<G, fn, iter, drug_targets, disease_genes, tissue_genes,
                   rwrVars, samplerVars, statsVars>>

\* one pass of the body of "for target in targets_in"
ProximityTarget ==
    /\ pc = "loop"
    /\ fn = "calculate_shortest_path"
    /\ iter < Len(targets_in)
    /\ LET target == targets_in[iter + 1]
           found == UNION {shortest_path_length(G, target, disease) :
                              disease \in disease_in}
       IN  distances' = collect(distances, found)
    /\ iter' = iter + 1
    /\ UNCHANGED <<pc, G, fn, result, drug_targets, disease_genes, tissue_genes,
                   targets_in,
                   disease_in, rwrVars, samplerVars, statsVars>>

\* line 38
ProximityReturn ==
    /\ pc = "loop"
    /\ fn = "calculate_shortest_path"
    /\ iter = Len(targets_in)
    /\ result' = IF distances # <<>> THEN Float(mean(distances)) ELSE NaN
    /\ pc' = "done"
    /\ UNCHANGED <<G, fn, iter, spVars, rwrVars, samplerVars, statsVars>>

\* the variant that measures from one gene of the module only
single_source_path_length(g, sources, t) ==
    bfs(g, {SetMin(sources)}, {SetMin(sources)}, t, 0)

\* nx.multi_source_dijkstra_path_length(G, sources) at node t, edges of
\* weight 1: {lengths[t]}, or {} when t is not a key of lengths
multi_source_dijkstra_path_length(g, sources, t) == bfs(g, sources, sources, t, 0)

\* proximity.py lines 35-43: the lengths of the first k valid targets that
\* are keys of lengths
RECURSIVE shortest_distances(_, _, _, _)
shortest_distances(g, valid_module, valid_targets, k) ==
    IF k = 0 THEN <<>>
    ELSE LET ds == shortest_distances(g, valid_module, valid_targets, k - 1)
             found == multi_source_dijkstra_path_length(g, valid_module,
                                                        valid_targets[k])
         IN  IF found = {} THEN ds ELSE Append(ds, SetMin(found))

\* proximity.py calculate_dc(G, drug_targets, disease_module)
calculate_dc(g, T, D) ==
    LET valid_module == D \cap Nodes(g)
        valid_targets == SelectSeq(T, LAMBDA t : t \in Nodes(g))
        ds == shortest_distances(g, valid_module, valid_targets,
                                 Len(valid_targets))
    IN  IF valid_module = {} \/ valid_targets = <<>> THEN NaN
        ELSE IF ds = <<>> THEN NaN
        ELSE Float(mean(ds))

\* a call of calculate_dc, from the validation to the returned d_c
DcCall ==
    /\ pc = "call"
    /\ fn = "calculate_dc"
    /\ targets_in' = SelectSeq(drug_targets, LAMBDA t : t \in Nodes(G))
    /\ disease_in' = disease_genes \cap Nodes(G)
    /\ distances' = IF disease_in' = {} THEN <<>>
                    ELSE shortest_distances(G, disease_in', targets_in',
                                            Len(targets_in'))
    /\ result' = calculate_dc(G, drug_targets, disease_genes)
    /\ pc' = "done"
    /\ UNCHANGED <<G, fn, iter, drug_targets, disease_genes, tissue_genes,
                   rwrVars, samplerVars, statsVars>>

\* the disease-gene collections of the model: node labels, one of them not a
\* node of the graph
DiseaseSets(n) == {D \in SUBSET (1 .. n + 1) : Cardinality(D) <= MaxDisease}

InitProximity ==
    /\ pc = "call"
    /\ fn \in {"calculate_shortest_path", "calculate_dc"}
    /\ G \in Graphs
    /\ drug_targets \in TargetLists(G.n, MaxTargets)
    /\ disease_genes \in DiseaseSets(G.n)
    /\ tissue_genes = {}
    /\ targets_in = <<>>
    /\ disease_in = {}
    /\ distances = <<>>
    /\ iter = 0
    /\ result = [kind |-> "none"]
    /\ RwrIdle /\ SamplerIdle /\ StatsIdle

NextProximity == ProximityCall \/ ProximityTarget \/ ProximityReturn \/ DcCall

SpecProximity == InitProximity /\ [][NextProximity]_vars

\* ---------------------------------------------------------- tissue filter
\* G.subgraph(nodes).copy(): the nodes kept and the edges of g between them
subgraph(g, nodes) ==
    [nodes |-> nodes, E |-> {e \in g.E : e[1] \in nodes /\ e[2] \in nodes}]

\* the connected component of the nodes S in the graph h
RECURSIVE component(_, _)
component(h, S) ==
    LET T == S \cup {j \in h.nodes : \E i \in S : <<i, j>> \in h.E \/ <<j, i>> \in h.E}
    IN  IF T = S THEN S ELSE component(h, T)

\* list(nx.connected_components(G_tissue)), as a set of node sets
connected_components(h) == {component(h, {v}) : v \in h.nodes}

\* max(components, key=len): the first of the largest components, in the
\* order in which connected_components yields them (by their first node)
largest(components) ==
    LET big == {c \in components :
                   \A o \in components : Cardinality(o) <= Cardinality(c)}
    IN  CHOOSE c \in big : \A o \in big : SetMin(c) <= SetMin(o)

\* the variant that returns the induced subgraph as it is
filter_without_lcc(g, genes) == subgraph(g, Nodes(g) \cap genes)

\* network.py lines 51-60
filter_to_tissue(g, genes) ==
    LET G_tissue == subgraph(g, Nodes(g) \cap genes)
        components == connected_components(G_tissue)
    IN  IF G_tissue.nodes # {} /\ Cardinality(components) > 1
        THEN subgraph(G_tissue, largest(components))
        ELSE G_tissue

FilterCall ==
    /\ pc = "call"
    /\ fn = "filter_to_tissue"
    /\ result' = filter_to_tissue(G, tissue_genes)
    /\ pc' = "done"
    /\ UNCHANGED <<G, fn, iter, rwrVars, samplerVars, statsVars, spVars>>

\* gene sets over the nodes of the graph and one gene that is not a node
InitTissue ==
    /\ pc = "call"
    /\ fn = "filter_to_tissue"
    /\ G \in Graphs
    /\ tissue_genes \in SUBSET (1 .. G.n + 1)
    /\ drug_targets = <<>> /\ disease_genes = {}
    /\ targets_in = <<>> /\ disease_in = {} /\ distances = <<>>
    /\ iter = 0
    /\ result = [nodes |-> {}, E |-> {}]
    /\ RwrIdle /\ SamplerIdle /\ StatsIdle

SpecTissue == InitTissue /\ [][FilterCall]_vars

\* ------------------------------------------------------- permutation loops
RANDOM_SEED == 42

ExpressionWeightedLoop == "run_expression_weighted_rwr_permutations.run_permutation_test"
ValidationLoop == "run_validation_700.main"
ShortestPathLoop == "run_shortest_path_permutations.run_permutation_test"

\* the core get_degree_matched_random after the first k passes of its loop,
\* run on a generator whose state is known: the nodes chosen and the state
\* the generator is left in
RECURSIVE picks(_, _, _, _, _)
picks(g, ts, degs, gen, k) ==
    IF k = 0 THEN [set |-> <<>>, gen |-> gen]
    ELSE LET before == picks(g, ts, degs, gen, k - 1)
             matched == in_band(g, degs[k], ts, before.set)
             candidates == IF matched = {} THEN fallback(g, ts, before.set)
                           ELSE matched
         IN  IF candidates = {} THEN before
             ELSE [set |-> Append(before.set,
                                  CHOOSE c \in np_random_choice(before.gen, candidates) : TRUE),
                   gen |-> advance(before.gen)]

\* get_degree_matched_random(G, targets, n_sample, seed=s) of permutation.py
sample(g, ts, n, s, gen) ==
    LET degs == take(degrees_of(g, ts), n)
    IN  picks(g, ts, degs, reseed(gen, s), Len(degs))

\* get_degree_matched_random(G, targets, n_random=1)[0] of the shortest-path
\* script after the first k passes of its loop
RECURSIVE script_picks(_, _, _, _)
script_picks(g, its, gen, k) ==
    IF k = 0 THEN [set |-> <<>>, gen |-> gen]
    ELSE LET before == script_picks(g, its, gen, k - 1)
             candidates == candidates_in(g, Nodes(g), script_band(its[k].degree),
                                         before.set)
             pool == IF candidates # {} THEN candidates ELSE Nodes(g)
         IN  [set |-> Append(before.set,
                             CHOOSE c \in np_random_choice(before.gen, pool) : TRUE),
              gen |-> advance(before.gen)]

\* the loop of run_rwr with at most k passes left
RECURSIVE rwr_loop(_, _, _, _, _, _, _)
rwr_loop(M, v, rv, alpha, n, t, k) ==
    IF k = 0 THEN v
    ELSE CHOOSE out \in
             {IF below_tol(l1_diff(p_new, v, den_step(M, rv, alpha, n), n), t)
              THEN p_new
              ELSE rwr_loop(M, p_new, rv, alpha, n, t, k - 1) :
                  p_new \in {rwr_update(M, v, rv, alpha, n)}} : TRUE

\* run_rwr(G, seeds, restart_prob=alpha) and run_expression_weighted_rwr(G,
\* seeds, expression, restart_prob=alpha) with the default tolerance; the
\* iteration cap of 100 is MaxIter in the model
rwr_scores(engine, g, e, sds, alpha) ==
    IF valid_seeds(g, sds) = <<>> THEN zero_scores(g)
    ELSE CHOOSE out \in
             {rwr_loop(M, rv, rv, alpha, g.n, <<1, 1000000>>, MaxIter) :
                  M \in {TransitionMatrix(engine, g, e)},
                  rv \in {restart_vector(g, valid_seeds(g, sds))}} : TRUE

\* sum(scores.get(gene, 0.0) for gene in dili_genes)
compute_dili_influence(sc, dili) ==
    LET inside == dili \cap DOMAIN sc.num
    IN  Float([num |-> BigSum([i \in DOMAIN sc.num |->
                                 IF i \in inside THEN sc.num[i] ELSE <<>>]),
               den |-> sc.den])

\* the distances that the script's calculate_shortest_path collects for the
\* first k targets that are nodes of the graph
RECURSIVE min_distances(_, _, _, _)
min_distances(g, tin, din, k) ==
    IF k = 0 THEN <<>>
    ELSE collect(min_distances(g, tin, din, k - 1),
                 UNION {shortest_path_length(g, tin[k], d) : d \in din})

\* calculate_shortest_path(G, targets, disease_genes) of the script
script_shortest_path(g, T, D) ==
    LET tin == valid_seeds(g, T)
        din == D \cap Nodes(g)
        ds == min_distances(g, tin, din, Len(tin))
    IN  IF tin = <<>> \/ din = {} THEN NaN
        ELSE IF ds = <<>> THEN NaN
        ELSE Float(mean(ds))

\* the statistic each loop computes for the random targets rt
statistic(rt) ==
    IF fn = ExpressionWeightedLoop
    THEN compute_dili_influence(
             rwr_scores("run_expression_weighted_rwr", G, expression, rt, <<3, 20>>),
             disease_genes)
    ELSE IF fn = ValidationLoop
    THEN compute_dili_influence(rwr_scores("run_rwr", G, <<>>, rt, <<7, 10>>),
                                disease_genes)
    ELSE script_shortest_path(G, rt, disease_genes)

\* the bookkeeping of a trial: the random targets drawn are remembered with
\* the index of the trial
trial_done(rt, gen) ==
    /\ random_set' = rt
    /\ rng' = gen
    /\ previous' = Append(previous, [trial |-> iter, random_targets |-> rt])
    /\ iter' = iter + 1
    /\ UNCHANGED <<pc, G, fn, result, expression, norm_method, W, seeds,
                   restart_prob, tol, max_iter, r, p, diffs, scores, targets,
                   n_sample, target_degrees, seed, bins, observed, tail,
                   results_df, spVars>>

\* one pass of the loop of lines 102-120 of the expression-weighted script
ExpressionWeightedTrial ==
    /\ pc = "loop" /\ fn = ExpressionWeightedLoop /\ iter < MaxNull
    /\ \E drawn \in {sample(G, targets, Len(targets), seed + iter, rng)} :
           /\ trial_done(drawn.set, drawn.gen)
           /\ null_distribution' =
                 IF drawn.set = <<>> THEN null_distribution
                 ELSE Append(null_distribution, statistic(drawn.set))

\* one pass of the loop of lines 150-157 of the validation script
ValidationTrial ==
    /\ pc = "loop" /\ fn = ValidationLoop /\ iter < MaxNull
    /\ \E valid_targets \in {valid_seeds(G, targets)} :
       \E drawn \in {sample(G, valid_targets, Len(valid_targets), seed + iter, rng)} :
           /\ trial_done(drawn.set, drawn.gen)
           /\ null_distribution' = Append(null_distribution, statistic(drawn.set))

\* one pass of the loop of lines 84-88 of the shortest-path script
ShortestPathTrial ==
    /\ pc = "loop" /\ fn = ShortestPathLoop /\ iter < MaxNull
    /\ \E its \in {items(G, dict_keys(valid_seeds(G, targets)))} :
       \E drawn \in {script_picks(G, its, rng, Len(its))} :
       \E null_value \in {statistic(drawn.set)} :
           /\ trial_done(drawn.set, drawn.gen)
           /\ null_distribution' =
                 IF null_value = NaN THEN null_distribution
                 ELSE Append(null_distribution, null_value)

\* the loop has run its trials
TrialsEnd ==
    /\ pc = "loop" /\ iter = MaxNull
    /\ pc' = "done"
    /\ UNCHANGED <<G, fn, iter, result, rwrVars, samplerVars, statsVars, spVars>>

\* the script runs the same permutation test once more in the same process;
\* the expression-weighted test seeds the global generator when it starts
TestAgain ==
    /\ pc = "done"
    /\ Len(previous) < MaxNull * MaxCalls
    /\ rng' = IF fn = ExpressionWeightedLoop THEN Seeded(RANDOM_SEED) ELSE rng
    /\ null_distribution' = <<>>
    /\ iter' = 0
    /\ pc' = "loop"
    /\ UNCHANGED <<G, fn, result, expression, norm_method, W, seeds,
                   restart_prob, tol, max_iter, r, p, diffs, scores, targets,
                   n_sample, target_degrees, random_set, seed, previous, bins,
                   observed, tail, results_df, spVars>>

\* the state at the start of the first loop: the validation script never
\* seeds the global generator, the other two seed it with RANDOM_SEED; the
\* seed of trial i is RANDOM_SEED + i, and i + 10000 in the validation script
InitTrials ==
    /\ pc = "loop"
    /\ fn \in {ExpressionWeightedLoop, ValidationLoop, ShortestPathLoop}
    /\ G \in Graphs /\ G.n >= 1
    /\ targets \in TargetLists(G.n, MaxTargets)
    /\ valid_seeds(G, targets) # <<>>
    /\ disease_genes \in {{d} : d \in Nodes(G)}
    /\ expression \in IF fn = ExpressionWeightedLoop THEN RwrExprMaps ELSE {<<>>}
    /\ seed = IF fn = ValidationLoop THEN 10000 ELSE RANDOM_SEED
    /\ rng = IF fn = ValidationLoop THEN Entropy ELSE Seeded(RANDOM_SEED)
    /\ iter = 0
    /\ null_distribution = <<>>
    /\ previous = <<>>
    /\ random_set = <<>>
    /\ result = <<>>
    /\ norm_method = "log_minmax" /\ W = <<>> /\ seeds = <<>>
    /\ restart_prob = <<0, 1>> /\ tol = <<0, 1>> /\ max_iter = 0
    /\ r = <<>> /\ p = <<>> /\ diffs = <<>> /\ scores = "none"
    /\ n_sample = 0 /\ target_degrees = <<>> /\ bins = <<>>
    /\ observed = [kind |-> "float", value |-> 0] /\ tail = "none"
    /\ results_df = <<>>
    /\ drug_targets = <<>> /\ tissue_genes = {}
    /\ targets_in = <<>> /\ disease_in = {} /\ distances = <<>>

NextTrials ==
    \/ ExpressionWeightedTrial \/ ValidationTrial \/ ShortestPathTrial
    \/ TrialsEnd \/ TestAgain

SpecTrials == InitTrials /\ [][NextTrials]_vars

\* ================================================================== claims
RECURSIVE ReachFrom(_, _)
ReachFrom(g, S) ==
    LET T == S \cup {j \in Nodes(g) : \E i \in S : HasEdge(g, i, j)}
    IN  IF T = S THEN S ELSE ReachFrom(g, T)

Connected(g) == g.n >= 1 /\ ReachFrom(g, {1}) = Nodes(g)

HasValidSeed == valid_seeds(G, seeds) # <<>>

Returned == pc = "done"

HasNeighbour(g, j) == \E i \in Nodes(g) : HasEdge(g, i, j)

ColumnSum(j) == RSum([i \in Nodes(G) |-> W[i][j]])

NonNegative == \A i, j \in Nodes(G) : ~RLess(W[i][j], Zero)

\* C1 as stated: whenever a transition matrix has been built (standard or
\* expression-weighted), all its entries are >= 0 and every column sums to 1,
\* the columns of nodes without neighbours included.
C1_EveryColumnSumsToOne ==
    pc = "built" => NonNegative /\ \A j \in Nodes(G) : ColumnSum(j) = One

\* C1 amended: all entries are >= 0, the column of every node that has a
\* neighbour sums to 1, and the column of a node without neighbours is zero.
C1_ColumnStochastic ==
    pc = "built" =>
        /\ NonNegative
        /\ \A j \in Nodes(G) :
              IF HasNeighbour(G, j)
              THEN ColumnSum(j) = One
              ELSE \A i \in Nodes(G) : W[i][j] = Zero

C1_Witness ==
    /\ pc = "built"
    /\ fn = "create_expression_weighted_transition_matrix"
    /\ \E j, k \in Nodes(G) :
          /\ HasNeighbour(G, j) /\ ColumnSum(j) = One
          /\ ~HasNeighbour(G, k) /\ ColumnSum(k) = Zero
          /\ k \in DOMAIN expression /\ expression[k] > 0

\* C6: the expression-weighted transition matrix is non-zero at cell (i, j)
\* exactly when the adjacency matrix is, whatever the expression of the nodes.
C6_SparsityPreserved ==
    (pc = "built" /\ fn = "create_expression_weighted_transition_matrix") =>
        \A i, j \in Nodes(G) : (W[i][j] # Zero) <=> HasEdge(G, i, j)

C6_Witness ==
    /\ pc = "built"
    /\ fn = "create_expression_weighted_transition_matrix"
    /\ \E i, j \in Nodes(G) :
          /\ HasEdge(G, i, j)
          /\ i \notin DOMAIN expression
          /\ j \in DOMAIN expression /\ expression[j] > 0
    /\ \E i, j \in Nodes(G) : i # j /\ ~HasEdge(G, i, j)

\* C2 as stated: for a connected graph (a single node included) and a seed list
\* with a seed in the graph, the scores run_rwr returns sum to 1, and a lone
\* seed node keeps a score above 0.5.  (Scores are non-negative by type.)
C2_ScoresSumToOne ==
    (Returned /\ fn = "run_rwr" /\ Connected(G) /\ HasValidSeed) =>
        /\ BigSum(scores.num) = scores.den
        /\ G.n = 1 => BigLess(scores.den, BigMulInt(scores.num[1], 2))

\* C7: when no seed is a node of the graph, each of the three engines returns
\* without iterating: the empty map on an empty graph, otherwise one entry per
\* node, each exactly 0.
C7_NoValidSeedAllZero ==
    (pc # "call" /\ ~HasValidSeed) =>
        /\ Returned
        /\ iter = 0
        /\ IF G.n = 0 THEN scores = empty_scores
           ELSE /\ DOMAIN scores.num = Nodes(G)
                /\ \A i \in Nodes(G) : scores.num[i] = <<>>

C7_Witness ==
    /\ Returned
    /\ fn = "run_expression_weighted_rwr"
    /\ G.n >= 2 /\ G.E # {}
    /\ seeds # <<>>
    /\ ~HasValidSeed

Edgeless == G.n >= 1 /\ G.E = {}

C9_IterationBounded ==
    /\ iter <= max_iter
    /\ Len(diffs) = iter
    /\ (pc = "loop" /\ iter = 0) => p = r
    /\ \A k \in 1 .. iter - 1 : ~below_tol(diffs[k], tol)
    /\ pc = "loop" => \A k \in 1 .. iter : ~below_tol(diffs[k], tol)
    /\ pc = "return" => iter >= 1 /\ below_tol(diffs[iter], tol)
    /\ (Returned /\ HasValidSeed) =>
          /\ scores = p
          /\ iter = max_iter \/ below_tol(diffs[iter], tol)

C9_Witness ==
    /\ Returned
    /\ fn = "run_expression_weighted_rwr"
    /\ G.E # {}
    /\ iter = 2 /\ max_iter = 3
    /\ below_tol(diffs[2], tol)

NoDuplicates(l) == \A i, j \in DOMAIN l : l[i] = l[j] => i = j

SamplerReturned == pc = "done" /\ fn = "get_degree_matched_random"

\* C3: the list get_degree_matched_random returns holds no node twice and no
\* node of the original target list, whether the nodes were drawn from the
\* degree band or from the fallback pool.
C3_NoDuplicateNoTarget ==
    SamplerReturned =>
        /\ NoDuplicates(result)
        /\ Range(result) \cap Range(targets) = {}
        /\ Range(result) \subseteq Nodes(G)

\* a call that drew its first node from the band and its second from the
\* fallback pool
C3_Witness ==
    /\ SamplerReturned
    /\ Len(result) = 2
    /\ result[1] \in in_band(G, target_degrees[1], targets, <<>>)
    /\ in_band(G, target_degrees[2], targets, <<result[1]>>) = {}
    /\ in_band_with_chosen(G, target_degrees[2], targets, <<>>) # {}

\* C10 as stated: the sampler returns exactly n_sample nodes, and fewer only
\* when no node of the graph is left outside the target list and the nodes
\* already chosen.
C10_ReturnsNSample ==
    SamplerReturned =>
        \/ Len(result) = n_sample
        \/ Len(result) < n_sample /\ fallback(G, targets, result) = {}

\* C4 as stated: for a non-empty null distribution and each accepted tail
\* option the empirical p-value p satisfies 0 < p <= 1.
C4_PValueInUnitInterval ==
    (pc = "done" /\ fn = "calculate_empirical_p_value"
        /\ null_distribution # <<>> /\ tail \in {"one_greater", "one_less", "two"}) =>
        /\ result.kind = "float"
        /\ RLess(Zero, result.value)
        /\ RLeq(result.value, One)

\* a walk of exactly k edges from s to t
RECURSIVE Walk(_, _, _, _)
Walk(g, s, t, k) ==
    IF k = 0 THEN s = t
    ELSE \E m \in Nodes(g) : HasEdge(g, s, m) /\ Walk(g, m, t, k - 1)

\* lengths of the walks from s to a node of D
WalkLengths(g, s, D) == {k \in 0 .. g.n : \E d \in D : Walk(g, s, d, k)}

\* C5: calculate_shortest_path returns the mean, over the entries of T that are
\* nodes of G and reach a disease gene of D in G, of the least number of edges
\* to such a gene; entries that reach none are left out, and the result is NaN
\* when either filtered collection is empty or no entry reaches a disease gene.
C5_MeanMinimumDistance ==
    (pc = "done" /\ fn = "calculate_shortest_path") =>
        LET T == SelectSeq(drug_targets, LAMBDA t : t \in Nodes(G))
            D == disease_genes \cap Nodes(G)
            reaching == SelectSeq(T, LAMBDA t : WalkLengths(G, t, D) # {})
            least == [i \in 1 .. Len(reaching) |-> SetMin(WalkLengths(G, reaching[i], D))]
        IN  IF reaching = <<>>
            THEN result = NaN
            ELSE result = Float(Rat(SumTo(least, Len(least)), Len(least)))

\* a call with two targets in the graph, one of which reaches no disease gene,
\* and a disease gene that is not a node of the graph
C5_Witness ==
    /\ pc = "done" /\ fn = "calculate_shortest_path"
    /\ Len(targets_in) = 2
    /\ Len(distances) = 1
    /\ disease_in # disease_genes
    /\ result = Float(One)

\* d deviates from deg by at most 25% of deg
Within25(d, deg) == 4 * Abs(d - deg) <= deg

\* the nodes that were neither targets nor chosen before the k-th draw
EligibleAt(k) == fallback(G, targets, SubSeq(random_set, 1, k - 1))

\* C11 as stated: whenever an eligible node has a degree within 25% of the
\* target's degree, the node drawn for that target deviates by at most 25%.
C11_Within25Percent ==
    fn = "get_degree_matched_random" =>
        \A k \in 1 .. Len(random_set) :
            (\E n \in EligibleAt(k) : Within25(degree(G, n), target_degrees[k]))
                => Within25(degree(G, random_set[k]), target_degrees[k])

\* d deviates from deg by at most 25% of deg, or by at most one
WithinBand(d, deg) == Within25(d, deg) \/ Abs(d - deg) <= 1

\* C11 amended: whenever an eligible node has a degree within the band of the
\* target's degree (25% of it, and never less than one), the node drawn for
\* that target lies in the band: it deviates by at most 25% or by at most one.
C11_WithinBand ==
    fn = "get_degree_matched_random" =>
        \A k \in 1 .. Len(random_set) :
            (\E n \in EligibleAt(k) : WithinBand(degree(G, n), target_degrees[k]))
                => WithinBand(degree(G, random_set[k]), target_degrees[k])

\* the target of degree 10 of the tolerance test got a node two degrees away
\* while the hub of degree 13 was eligible
C11_Witness ==
    /\ SamplerReturned
    /\ Len(result) >= 1
    /\ target_degrees[1] = 10
    /\ Abs(degree(G, result[1]) - 10) = 2
    /\ \E n \in EligibleAt(1) : degree(G, n) = 13

\* the number of entries among the first k of l that are not below v
RECURSIVE CountNotBelow(_, _, _)
CountNotBelow(l, k, v) ==
    IF k = 0 THEN 0 ELSE CountNotBelow(l, k - 1, v) + (IF l[k] < v THEN 0 ELSE 1)

\* the number of entries among the first k of l that are not above v
RECURSIVE CountNotAbove(_, _, _)
CountNotAbove(l, k, v) ==
    IF k = 0 THEN 0 ELSE CountNotAbove(l, k - 1, v) + (IF l[k] > v THEN 0 ELSE 1)

\* C12: for n >= 1 null values and a number as observed value, the empirical
\* p-value is (r + 1) / (n + 1), with r the number of null values >= observed
\* for tail 'one_greater' and the number of null values <= observed for tail
\* 'one_less'.
C12_EmpiricalFormula ==
    (pc = "done" /\ fn = "calculate_empirical_p_value" /\ null_distribution # <<>>
        /\ observed # NaN /\ tail \in {"one_greater", "one_less"}) =>
        LET n == Len(null_distribution)
            extreme == IF tail = "one_greater"
                       THEN CountNotBelow(null_distribution, n, observed.value)
                       ELSE CountNotAbove(null_distribution, n, observed.value)
        IN  /\ result.kind = "float"
            /\ result.value[1] * (n + 1) = (extreme + 1) * result.value[2]

\* a one_greater call with a null value equal to the observed one, one below
\* and one above: r = 2, n = 3, p = 3/4
C12_Witness ==
    /\ pc = "done" /\ fn = "calculate_empirical_p_value"
    /\ tail = "one_greater"
    /\ observed = Float(1)
    /\ Range(null_distribution) = {0, 1, 2} /\ Len(null_distribution) = 3
    /\ result = Float(<<3, 4>>)

AllEqual(l) == \A i, j \in DOMAIN l : l[i] = l[j]

ZScoreReturned == pc = "done" /\ fn = "calculate_z_score"

\* C13: calculate_z_score returns (obs - mean) / std with the population
\* standard deviation of the null values, and exactly 0 for every observed
\* value when all null values are equal.
C13_ZeroForEqualNull ==
    ZScoreReturned =>
        IF AllEqual(null_distribution) THEN result = Float(FZero)
        ELSE result = quotient(observed, np_mean(null_distribution),
                               Float([x |-> null_distribution,
                                      mean |-> np_mean(null_distribution).value,
                                      ddof |-> 0]))

\* C14: when the observed value is NaN or the null distribution is empty,
\* calculate_z_score and calculate_empirical_p_value return NaN, not a number
\* and not an exception.
C14_NaNPropagates ==
    (pc = "done" /\ (observed = NaN \/ null_distribution = <<>>)) => result = NaN

\* C15: a call of get_degree_matched_random with a seed that is not None
\* returns the list that the earlier call with the same graph, targets,
\* n_sample and seed returned, whatever was drawn from the generator between.
C15_SeededCallsAgree ==
    (SamplerReturned /\ seed # None /\ previous # <<>>) => result = previous[1]

\* a seeded second call that had two candidates to choose from returns the
\* node of the first call
C15_Witness ==
    /\ SamplerReturned /\ seed # None /\ previous # <<>>
    /\ Len(result) = 1 /\ result = previous[1]
    /\ Cardinality(in_band(G, target_degrees[1], targets, <<>>)) = 2

\* C16: in every result table the permutation scripts write, the flag
\* 'significant' of a row is true exactly when its p_fdr is below 0.05.
C16_SignificantIffFdr ==
    (pc = "done" /\ results_df # <<>>) =>
        \A i \in DOMAIN results_df :
            results_df[i].significant <=> lt(results_df[i].p_fdr, Alpha)

WeightedBuilt == pc = "built" /\ fn = "create_expression_weighted_transition_matrix"

\* the normalized expression of the nodes of G
ExprNormalized == normalize_expression_values(expression, G.n, "log_minmax")

StarRun(c, h, l) ==
    /\ Returned /\ iter >= 1
    /\ G.n = 3 /\ {c, h, l} = Nodes(G)
    /\ HasEdge(G, c, h) /\ HasEdge(G, c, l) /\ ~HasEdge(G, h, l)
    /\ seeds = <<c>>

Standard == fn \in {"run_rwr", "run_standard_rwr"}

Weighted == fn = "run_expression_weighted_rwr"

\* C18 as stated: on the star with centre c as only seed, standard RWR gives
\* the leaves equal scores, and expression-weighted RWR gives the leaf h of
\* higher expression more than 1.5 times the score of the leaf l of lower
\* expression (the standard ratio being 1).
C18_RatioAboveThreeHalves ==
    \A c, h, l \in Nodes(G) :
        StarRun(c, h, l) =>
            /\ Standard => scores.num[h] = scores.num[l]
            /\ (Weighted /\ expr_get(expression, h) > expr_get(expression, l)) =>
                  BigLess(BigMulInt(scores.num[l], 3), BigMulInt(scores.num[h], 2))

\* C18, amended: standard RWR gives the leaves equal scores; weighted RWR
\* gives them scores in the proportion of their normalized expression, so the
\* leaf of higher normalized expression has the strictly larger score.
C18_RatioOfExpression ==
    \A c, h, l \in Nodes(G) :
        StarRun(c, h, l) =>
            /\ Standard => scores.num[h] = scores.num[l]
            /\ Weighted =>
                  LET eh == ExprNormalized[h]
                      el == ExprNormalized[l]
                  IN  /\ BigMulInt(scores.num[h], el[1] * eh[2])
                           = BigMulInt(scores.num[l], eh[1] * el[2])
                      /\ RLess(el, eh) => BigLess(scores.num[l], scores.num[h])

\* the star of the test: the leaf h has the largest expression (normalized
\* 1.0), the leaf l the smallest (the floor 0.01), the centre lies between,
\* and h scores a hundred times l
C18_Witness ==
    /\ Weighted
    /\ \E c, h, l \in Nodes(G) :
          /\ StarRun(c, h, l)
          /\ ExprNormalized[h] = One /\ ExprNormalized[l] = ExprFloor
          /\ RLess(ExprFloor, ExprNormalized[c]) /\ RLess(ExprNormalized[c], One)
          /\ scores.num[h] = BigMulInt(scores.num[l], 100)
          /\ scores.num[l] # <<>>

UniformExpression ==
    \A i, j \in Nodes(G) : expr_get(expression, i) = expr_get(expression, j)

\* C19: when every node has the same expression value, the expression-weighted
\* transition matrix is exactly the standard column-normalised adjacency
\* matrix of the graph.
C19_UniformIsStandard ==
    (WeightedBuilt /\ UniformExpression) => W = standard_transition_matrix(G)

\* a graph with an edge whose nodes all have the same positive expression
C19_Witness ==
    /\ WeightedBuilt /\ UniformExpression
    /\ G.E # {}
    /\ \A i \in Nodes(G) : i \in DOMAIN expression /\ expression[i] > 0
    /\ W = standard_transition_matrix(G)

NormalizeReturned == pc = "done" /\ fn = "normalize_expression_values"

\* the raw value of node i: its entry of the expression map, 0 without one
RawValue(i) == IF i \in DOMAIN expression THEN expression[i] ELSE 0

\* one value per node in [0.01, 1]; all 1.0 when the raw values are equal,
\* otherwise 1.0 for the largest raw value and 0.01 for the smallest; a larger
\* raw value never has the smaller normalized value
NormalizedAsStated ==
    /\ result.kind = "array"
    /\ DOMAIN result.value = Nodes(G)
    /\ \A i \in Nodes(G) :
          RLeq(ExprFloor, result.value[i]) /\ RLeq(result.value[i], One)
    /\ IF \A i, j \in Nodes(G) : RawValue(i) = RawValue(j)
       THEN \A i \in Nodes(G) : result.value[i] = One
       ELSE \A i \in Nodes(G) :
               /\ (\A j \in Nodes(G) : RawValue(j) <= RawValue(i)) => result.value[i] = One
               /\ (\A j \in Nodes(G) : RawValue(i) <= RawValue(j)) =>
                     result.value[i] = ExprFloor
    /\ \A i, j \in Nodes(G) :
          RawValue(i) <= RawValue(j) => RLeq(result.value[i], result.value[j])

\* C20 as stated: for every node list and expression map,
\* normalize_expression_values returns one value per node in [0.01, 1], with
\* missing nodes counted as 0, all values 1.0 for equal raw values, and
\* otherwise 1.0 for the largest, 0.01 for the smallest and the order kept.
C20_NormalizedForEveryList == NormalizeReturned => NormalizedAsStated

\* C20, amended: the same for every node list that is not empty; for the
\* empty node list the call raises ValueError.
C20_NormalizedForNonEmptyList ==
    NormalizeReturned =>
        IF G.n = 0 THEN result = Raises("ValueError") ELSE NormalizedAsStated

\* three nodes, the largest at 1.0, one between, and the missing one at 0.01
C20_Witness ==
    /\ NormalizeReturned
    /\ G.n = 3 /\ DOMAIN expression = {1, 2}
    /\ result.kind = "array"
    /\ result.value[1] = One
    /\ RLess(ExprFloor, result.value[2]) /\ RLess(result.value[2], One)
    /\ result.value[3] = ExprFloor

\* the nodes of the connected components that contain a valid seed
SeedComponents == ReachFrom(G, Range(valid_seeds(G, seeds)))

Updated == pc \in {"loop", "return"} /\ iter >= 1

\* C21: in every engine, after every update p = (1 - alpha) W p + alpha r and
\* in the returned map, every node of a connected component that holds no
\* valid seed has the score exactly 0.
C21_ZeroOutsideSeedComponents ==
    /\ Updated => \A i \in Nodes(G) \ SeedComponents : p.num[i] = <<>>
    /\ Returned /\ G.n >= 1
         => \A i \in Nodes(G) \ SeedComponents : scores.num[i] = <<>>

\* a seeded run on a disconnected graph has been updated and returned: the
\* nodes of the seed's component are positive, one other node is at zero
C21_Witness ==
    /\ Returned /\ HasValidSeed /\ iter >= 1
    /\ SeedComponents # Nodes(G)
    /\ Cardinality(SeedComponents) >= 2
    /\ \A i \in SeedComponents : scores.num[i] # <<>>
    /\ \E i \in Nodes(G) \ SeedComponents : scores.num[i] = <<>>

\* C22: for every graph, target list and disease collection, the per-target
\* search of calculate_shortest_path returns the d_c that the multi-source
\* search of calculate_dc returns for the same arguments, NaN in the same
\* cases.
C22_PerTargetEqualsMultiSource ==
    Returned /\ fn = "calculate_shortest_path"
        => result = calculate_dc(G, drug_targets, disease_genes)

\* the per-target search has returned a mean over two targets, one of them
\* nearer to the second disease gene than to the first
C22_Witness ==
    /\ Returned /\ fn = "calculate_shortest_path"
    /\ Len(distances) = 2 /\ distances[1] # distances[2]
    /\ Cardinality(disease_in) = 2
    /\ result = Float(mean(distances))
    /\ \E k \in 1 .. 2 :
         shortest_path_length(G, targets_in[k], SetMin(disease_in))
             # {distances[k]}

\* a[i] / a.den = b[i] / b.den for every node: two score maps of equal value
SameScores(a, b) ==
    /\ DOMAIN a.num = DOMAIN b.num
    /\ \A i \in DOMAIN a.num : BigMul(a.num[i], b.den) = BigMul(b.num[i], a.den)

\* C23 as stated: after a self-loop has been added to a node, run_rwr returns
\* the scores it returned before, and get_degree_matched_random works with
\* the degrees it worked with before.
C23_SelfLoopChangesNothing ==
    Returned /\ previous # <<>> =>
        IF fn = "run_rwr" THEN SameScores(scores, previous[1])
        ELSE degrees(G) = previous[1]

\* the random set a finished call of one of the other samplers returned
returned_set == IF fn = ScriptSampler THEN result[1] ELSE result

OthersReturned ==
    pc = "done" /\ fn \in {ScriptSampler, SeedsSampler, NullModelSampler}

\* C24 as stated: the list that the script's get_degree_matched_random,
\* get_degree_matched_random_seeds or NullModel.get_degree_matched_random_set
\* returns holds no node twice and no node of the original target list.
C24_OthersNoDuplicateNoTarget ==
    OthersReturned =>
        /\ NoDuplicates(returned_set)
        /\ Range(returned_set) \cap Range(targets) = {}

\* the nodes that are neither targets nor chosen so far
Unused == Nodes(G) \ (Range(targets) \cup Range(random_set))

\* C27: a pass of the loop of get_degree_matched_random that finds no eligible
\* node in the degree band appends a node that is neither a target nor chosen
\* before; when no such node exists it appends nothing and the call goes on to
\* its return statement, which returns the list built so far.
C27_FallbackOrNothing ==
    [][(pc = "loop" /\ fn = "get_degree_matched_random" /\ iter' = iter + 1
          /\ in_band(G, target_degrees[iter + 1], targets, random_set) = {})
       => IF Unused # {}
          THEN \E n \in Unused : random_set' = Append(random_set, n)
          ELSE random_set' = random_set /\ pc' = "loop" /\ result' = result]_vars

\* a call has returned a single node: the band of its first target was
\* empty and the replacement came from the nodes that are not targets
C27_Witness ==
    /\ SamplerReturned
    /\ iter >= 1 /\ Len(result) = 1 /\ result = random_set
    /\ in_band(G, target_degrees[1], targets, <<>>) = {}
    /\ result[1] \in Nodes(G) \ Range(targets)

\* C29 as stated: every call of NullModel.get_degree_matched_random_set
\* comes to its end (it returns, or it raises), for every target list and
\* every bin size.
C29_NullModelTerminates ==
    fn = NullModelSampler => <>(pc \in {"done", "raised"})

\* the candidate degrees that each of the three samplers accepts for a target
\* of degree deg
CoreAccepts(deg) == {d \in 0 .. 2 * MaxNodes : Abs(d - deg) <= degree_tol(deg)}

SeedsAccepts(deg) ==
    {d \in 0 .. 2 * MaxNodes : seeds_band(deg).min <= d /\ d <= seeds_band(deg).max}

ScriptAccepts(deg) ==
    {d \in 0 .. 2 * MaxNodes : script_band(deg).min <= d /\ d <= script_band(deg).max}

\* C30 as stated: for the degree of every target that the seeds sampler or the
\* script's sampler is about to replace, the core sampler, the seeds sampler
\* and the script's sampler accept the same candidate degrees.
C30_SameCandidateDegrees ==
    (pc = "loop" /\ fn \in {ScriptSampler, SeedsSampler}
        /\ iter < Len(target_degrees)) =>
        LET deg == target_degrees[iter + 1].degree
        IN  /\ CoreAccepts(deg) = SeedsAccepts(deg)
            /\ SeedsAccepts(deg) = ScriptAccepts(deg)

\* the nodes that a walk inside the node set S reaches from v
RECURSIVE WithinFrom(_, _, _)
WithinFrom(S, v, seen) ==
    LET more == seen \cup {j \in S : \E i \in seen : HasEdge(G, i, j)}
    IN  IF more = seen THEN seen ELSE WithinFrom(S, v, more)

Induced == Nodes(G) \cap tissue_genes

\* C26: the graph filter_to_tissue returns has only nodes that are in G and in
\* tissue_genes, is connected or empty, has as many nodes as the largest
\* connected component of the subgraph of G induced by tissue_genes, and has
\* every edge of G between two of its nodes.
C26_LargestTissueComponent ==
    (pc = "done" /\ fn = "filter_to_tissue") =>
        /\ result.nodes \subseteq Induced
        /\ \A v \in result.nodes : WithinFrom(result.nodes, v, {v}) = result.nodes
        /\ \A v \in Induced :
               Cardinality(WithinFrom(Induced, v, {v})) <= Cardinality(result.nodes)
        /\ Induced # {} => result.nodes # {}
        /\ result.E = {e \in G.E : e[1] \in result.nodes /\ e[2] \in result.nodes}

\* the filter has dropped a gene that is not a node and a tissue gene outside
\* the largest component, and has kept an edge
C26_Witness ==
    /\ pc = "done" /\ fn = "filter_to_tissue"
    /\ ~(tissue_genes \subseteq Nodes(G))
    /\ result.nodes # Induced
    /\ result.E # {}

\* the trials of the running permutation test, oldest first
CurrentTrials == SubSeq(previous, Len(previous) - iter + 1, Len(previous))

\* the statistics of the first k of the trials h that drew a non-empty random
\* target set and have a defined statistic, in trial order
RECURSIVE ValuesOfSuccessful(_, _)
ValuesOfSuccessful(h, k) ==
    IF k = 0 THEN <<>>
    ELSE LET rest == ValuesOfSuccessful(h, k - 1)
             rt == h[k].random_targets
         IN  IF rt = <<>> THEN rest
             ELSE CHOOSE out \in {IF val = NaN THEN rest ELSE Append(rest, val) :
                                     val \in {statistic(rt)}} : TRUE

\* C25 as stated: after any number of trials of a permutation loop the null
\* distribution holds, in trial order, one value for every trial that drew a
\* non-empty random target set and has a defined statistic, and nothing for
\* the other trials.
C25_OneValuePerSuccessfulTrial ==
    (pc = "loop" /\ fn \in {ExpressionWeightedLoop, ValidationLoop, ShortestPathLoop})
        => null_distribution = ValuesOfSuccessful(CurrentTrials, iter)

\* C28 as stated: in every permutation loop the random target set of trial i
\* depends on the graph, the target list, the base seed and i only: two
\* trials with the same index, of tests run one after the other in the same
\* process with the same arguments, draw the same set.
C28_TrialSetDependsOnIndexOnly ==
    \A a, b \in DOMAIN previous :
        previous[a].trial = previous[b].trial
            => previous[a].random_targets = previous[b].random_targets

====
